---- MODULE Spec2Model ----
(***************************************************************************)
(* Recurrence-and-reminder scheduling engine of the phase-3 backend:       *)
(* the lifespan driver (src/main.py), the reminder sweep                   *)
(* (src/services/reminder_service.py), the recurrence sweep                *)
(* (src/scheduler/jobs.py) and the set_due_date tool                       *)
(* (src/mcp/tools/reminder_tools.py), over a durable store and per-sweep   *)
(* ORM sessions.                                                           *)
(*                                                                         *)
(* Optional columns (NULL-able timestamps) are sets with at most one       *)
(* element: {} is NULL, {t} is the value t.  A comparison with NULL is     *)
(* then false, as in SQL.                                                  *)
(***************************************************************************)
EXTENDS Integers, FiniteSets, Sequences, TLC

\* ------------------------------------------------------------------ bounds
\* The clock runs over 0..MaxTime.
MaxTime == 1
\* Reminder sweeps started over a whole behaviour (catch-up and ticks).
MaxSweeps == 2
\* Successful set_due_date calls over a whole behaviour.
MaxEdits == 1
\* Process stops (crash or shutdown) over a whole behaviour.
MaxStops == 1

\* ------------------------------------------------------- program constants
\* scheduler.add_job(...) is called without max_instances: APScheduler's
\* default of one running instance per job applies.
MaxInstances == 1
\* async_sessionmaker(..., autoflush=False): a pending session.delete() is
\* not flushed before a later SELECT of the same session.
Autoflush == FALSE

\* --------------------------------------------------------------- universes
Users == {"u1", "u2"}
TaskIds == {"t1", "t2"}
\* Ids of the task instances the recurrence sweep creates (uuid4()).
InstanceIds == {"n1", "n2"}
ReminderIds == {"r1", "r2"}
RuleIds == {"q1", "q2"}
SubIds == {"s1", "s2", "s3"}
Times == 0..MaxTime
OptTimes == {{}} \cup {{t} : t \in Times}
\* The due_date arguments set_due_date is called with.
DueArgs == {{}, {MaxTime}}
\* Invocation slots of one job; two slots make an overlap representable.
Slots == {1, 2}
\* What one webpush() call can do: return, raise WebPushException with a 410
\* response, raise WebPushException otherwise, raise any other exception
\* (requests' connection errors, encoding errors of malformed keys).
Outcomes == {"ok", "gone", "push_error", "error"}
\* What one _create_task_instance call can do: return, raise from the SELECT
\* of the template task, raise from calculate_next_occurrence.
RowOutcomes == {"ok", "raise_load", "raise_calc"}

VARIABLES
    now,         \* wall clock
    tasks,       \* durable table tasks: id -> row
    rules,       \* durable table recurrence_rules: id -> row
    reminders,   \* durable table reminder_metadata: id -> row
    subs,        \* durable table push_subscriptions: id -> row
    phase,       \* position of lifespan()
    rem,         \* check_reminders invocations, one record per slot
    rec,         \* check_recurrence invocations, one record per slot
    catchup,     \* history: the startup catch-up of the running process
    notified,    \* history: <<reminder, subscription>> delivered to, since the reminder_time got its value
    duplicated,  \* history: <<reminder, subscription>> delivered to more than once, likewise
    seen,        \* history: reminders a sweep's query selected, since the reminder_time got its value
    reselected,  \* history: reminders selected by more than one query, likewise
    marked,      \* history: reminders whose notification_sent a commit flipped to true, likewise
    remarked,    \* history: reminders flipped to true more than once, likewise
    goneSubs,    \* history: subscriptions for which a send returned 410
    recalled,    \* history: subscriptions sent to again after they returned 410
    lastEdit,    \* history: the last set_due_date call, or the last
                 \* create_recurrence call that reached the calculator
    sweeps,      \* reminder sweeps started
    edits,       \* successful set_due_date calls
    stops,       \* process stops
    calls,       \* calls of the tools in flight, one record per caller
    sched        \* the scheduler: configured intervals, job table, late ticks

store == <<tasks, rules, reminders, subs>>
perValue == <<notified, duplicated, seen, reselected, marked, remarked>>
hist == <<perValue, goneSubs, recalled, lastEdit>>
driver == <<phase, catchup>>
counters == <<sweeps, edits, stops>>
vars == <<now, store, driver, rem, rec, hist, counters, calls, sched>>

\* ------------------------------------------------------------------ rows
EmptyFn == [x \in {} |-> x]

\* The sessions of the tool server: each runs one call at a time.
Callers == {"c1", "c2"}
\* A caller between two calls, and how its last call ended.
IdleCall == [pc |-> "idle", outcome |-> "none"]

\* SCHEDULER_RECURRENCE_INTERVAL_MINUTES and SCHEDULER_REMINDER_INTERVAL_SECONDS
\* when the environment does not set them.
DefaultEnv == [recurrence |-> 5, reminder |-> 60]
\* The scheduler of a process that is not serving: no job; late: the ticks
\* processed late that ran, misfired: those that were skipped (history).
Unscheduled(env) == [env |-> env, jobs |-> EmptyFn, late |-> {}, misfired |-> {}]

\* One invocation of check_reminders: its position, the reminders its query
\* returned (sel, with the task_id of each loaded row in task_of) and those
\* still to process (due), the reminder and the
\* subscriptions of the running _send_reminder (cur, todo), the session's
\* pending writes (dirty: notification_sent = True; deleted: subscriptions),
\* the webpush() calls it made with their outcomes (tried), and whether a timer tick of the job
\* was skipped while it ran (missed).
IdleRem ==
    [pc |-> "idle", kind |-> "none", sel |-> {}, task_of |-> EmptyFn, due |-> {},
     cur |-> "none", todo |-> {},
     dirty |-> {}, deleted |-> {}, tried |-> {}, missed |-> FALSE]

\* One invocation of check_recurrence: its position, the now of its sweep, the
\* rules its query returned (sel) and the loaded rows still to process (due),
\* the session's pending writes (added: new task rows by id; moved:
\* next_occurrence by rule; removed: deleted rules), and the rules whose
\* _create_task_instance raised (failed, the "Error processing recurrence" log).
IdleRec ==
    [pc |-> "idle", kind |-> "none", now |-> 0, sel |-> {}, due |-> EmptyFn,
     added |-> EmptyFn, moved |-> EmptyFn, removed |-> {}, failed |-> {},
     missed |-> FALSE]

\* The startup catch-up: how each catch-up sweep ended ("none" while it has
\* not), the rows that were due when lifespan() started, and the rows the
\* catch-up sweeps processed.
NoCatchup ==
    [rules |-> "none", reminders |-> "none", dueRules |-> {}, dueReminders |-> {},
     doneRules |-> {}, doneReminders |-> {}]

NoEdit == [kind |-> "none", withRt |-> FALSE, wasSent |-> FALSE]

\* ReminderMetadata(id, task_id, due_date, reminder_time): the model's defaults
\* notification_sent=False, snooze_until=None.
NewReminder(t, due, rt) ==
    [task_id |-> t, due_date |-> due, reminder_time |-> rt,
     notification_sent |-> FALSE, snooze_until |-> {}]

\* A task row as the users' tools leave it.
UserTask(t, u) ==
    [user_id |-> u, title |-> t, description |-> {t}, status |-> "pending",
     priority |-> "Medium", category_id |-> {}, created_at |-> 0, updated_at |-> 0]

\* What every specification starts from, the store and the clock apart: the
\* process is not running and nothing has happened.
InitProcess ==
    /\ phase = "stopped"
    /\ catchup = NoCatchup
    /\ rem = [k \in Slots |-> IdleRem]
    /\ rec = [k \in Slots |-> IdleRec]
    /\ notified = {}
    /\ duplicated = {}
    /\ seen = {}
    /\ reselected = {}
    /\ marked = {}
    /\ remarked = {}
    /\ goneSubs = {}
    /\ recalled = {}
    /\ lastEdit = NoEdit
    /\ sweeps = 0
    /\ edits = 0
    /\ stops = 0
    /\ calls = [c \in Callers |-> IdleCall]

\* ... with the intervals of the jobs left at their defaults.
InitIdle ==
    /\ sched = Unscheduled(DefaultEnv)
    /\ InitProcess

InitRest ==
    /\ now = 0
    /\ InitIdle

\* Tasks t1 and t2 of user u1; u1 has two push subscriptions and u2 one; t1
\* has a reminder due from time 0 and t2 one due from time MaxTime.
InitStore ==
    /\ tasks = [t \in TaskIds |-> UserTask(t, "u1")]
    /\ reminders = ("r1" :> NewReminder("t1", {}, {0}))
                        @@ ("r2" :> NewReminder("t2", {}, {MaxTime}))
    /\ subs = [s \in SubIds |-> [user_id |-> IF s = "s3" THEN "u2" ELSE "u1"]]

Init ==
    /\ InitRest
    /\ InitStore
    /\ rules = EmptyFn


\* ------------------------------------------------- recurrence calculator
\* A datetime is a number of hours since 1970-01-01T00:00Z, a date a number of
\* days since 1970-01-01; the proleptic Gregorian calendar of datetime.
IsLeap(y) == (y % 4 = 0 /\ y % 100 # 0) \/ y % 400 = 0

\* calendar.monthrange(year, month)[1]
DaysInMonth(y, m) ==
    IF m = 2 THEN (IF IsLeap(y) THEN 29 ELSE 28)
    ELSE IF m \in {4, 6, 9, 11} THEN 30 ELSE 31

\* date(y, m, d) as a day number
DaysFromCivil(y, m, d) ==
    LET yy == IF m <= 2 THEN y - 1 ELSE y
        era == yy \div 400
        yoe == yy - era * 400
        mp == IF m > 2 THEN m - 3 ELSE m + 9
        doy == (153 * mp + 2) \div 5 + d - 1
        doe == yoe * 365 + yoe \div 4 - yoe \div 100 + doy
    IN  era * 146097 + doe - 719468

\* the year, month and day of a day number
CivilFromDays(z) ==
    LET zz == z + 719468
        era == zz \div 146097
        doe == zz - era * 146097
        yoe == (doe - doe \div 1460 + doe \div 36524 - doe \div 146096) \div 365
        doy == doe - (365 * yoe + yoe \div 4 - yoe \div 100)
        mp == (5 * doy + 2) \div 153
        d == doy - (153 * mp + 2) \div 5 + 1
        m == IF mp < 10 THEN mp + 3 ELSE mp - 9
    IN  [year |-> yoe + era * 400 + (IF m <= 2 THEN 1 ELSE 0), month |-> m, day |-> d]

DateOf(ts) == ts \div 24
TimeOfDay(ts) == ts % 24

\* current.replace(year=y, month=m, day=d)
Replace(current, y, m, d) == DaysFromCivil(y, m, d) * 24 + TimeOfDay(current)

Min(a, b) == IF a <= b THEN a ELSE b

\* calculate_next_occurrence up to the end_date check: {} for an unknown
\* frequency, {next_dt} otherwise.
NextDt(frequency, interval, current, day_of_month) ==
    LET c == CivilFromDays(DateOf(current))
    IN  CASE frequency = "daily" -> {current + interval * 24}
          [] frequency = "weekly" -> {current + interval * 7 * 24}
          [] frequency = "monthly" ->
                LET month0 == c.month + interval
                    year == c.year + (month0 - 1) \div 12
                    month == ((month0 - 1) % 12) + 1
                    target_day == IF day_of_month # {} /\ day_of_month # {0}
                                  THEN CHOOSE x \in day_of_month : TRUE ELSE c.day
                    day == Min(target_day, DaysInMonth(year, month))
                IN  {Replace(current, year, month, day)}
          [] frequency = "yearly" ->
                LET year == c.year + interval
                    day == Min(c.day, DaysInMonth(year, c.month))
                IN  {Replace(current, year, c.month, day)}
          [] OTHER -> {}

\* calculate_next_occurrence using days_of_week for a weekly rule: the result
\* is moved on by a day when the list is given.
calculate_next_occurrence_weekdays(frequency, interval, current, end_date, days_of_week, day_of_month) ==
    {x \in NextDt(frequency, interval,
                  IF frequency = "weekly" /\ days_of_week # {} THEN current + 24 ELSE current,
                  day_of_month) :
        ~(\E e \in end_date : DateOf(x) > e)}

\* calculate_next_occurrence taking no notice of day_of_month.
calculate_next_occurrence_sameDay(frequency, interval, current, end_date, days_of_week, day_of_month) ==
    {x \in NextDt(frequency, interval, current, {}) :
        ~(\E e \in end_date : DateOf(x) > e)}

\* calculate_next_occurrence taking a year for 365 days.
calculate_next_occurrence_365(frequency, interval, current, end_date, days_of_week, day_of_month) ==
    {x \in (IF frequency = "yearly" THEN {current + interval * 365 * 24}
            ELSE NextDt(frequency, interval, current, day_of_month)) :
        ~(\E e \in end_date : DateOf(x) > e)}

\* calculate_next_occurrence with an end date that is exclusive.
calculate_next_occurrence_exclusive(frequency, interval, current, end_date, days_of_week, day_of_month) ==
    {x \in NextDt(frequency, interval, current, day_of_month) :
        ~(\E e \in end_date : DateOf(x) >= e)}

\* calculate_next_occurrence taking the day_of_month of a monthly rule one
\* month early.
calculate_next_occurrence_monthEarly(frequency, interval, current, end_date, days_of_week, day_of_month) ==
    {x \in NextDt(frequency,
                  IF frequency = "monthly" /\ day_of_month # {} THEN interval - 1 ELSE interval,
                  current, day_of_month) :
        ~(\E e \in end_date : DateOf(x) > e)}

\* calculate_next_occurrence(frequency, interval, current, end_date,
\* days_of_week, day_of_month): {} is None.
calculate_next_occurrence(frequency, interval, current, end_date, days_of_week, day_of_month) ==
    {x \in NextDt(frequency, interval, current, day_of_month) :
        ~(\E e \in end_date : DateOf(x) > e)}

\* datetime.max, to the hour: 9999-12-31T23.
MaxDatetime == DaysFromCivil(9999, 12, 31) * 24 + 23

\* Whether calculate_next_occurrence raises: current + timedelta(...) raises
\* OverflowError and current.replace(year=...) ValueError when the result
\* would lie after datetime.max.
CalcRaises(frequency, interval, current, day_of_month) ==
    \E x \in NextDt(frequency, interval, current, day_of_month) : x > MaxDatetime

\* ------------------------------------------------------------ the store
\* IsDue without the condition on snooze_until.
IsDue_ignoringSnooze(row, t) ==
    /\ \E x \in row.reminder_time : x <= t
    /\ row.notification_sent = FALSE

\* WHERE reminder_time <= now AND notification_sent = false
\*   AND (snooze_until IS NULL OR snooze_until <= now)
IsDue(row, t) ==
    /\ \E x \in row.reminder_time : x <= t
    /\ row.notification_sent = FALSE
    /\ (row.snooze_until = {} \/ \E x \in row.snooze_until : x <= t)

DueReminders(t) == {r \in DOMAIN reminders : IsDue(reminders[r], t)}

\* The push_subscriptions rows a SELECT of session p sees: the durable rows,
\* without the session's pending deletes only if the session autoflushes.
VisibleSubs(p) == IF Autoflush THEN DOMAIN subs \ p.deleted ELSE DOMAIN subs

\* select(PushSubscription).where(PushSubscription.user_id == task.user_id)
SubscriptionsOf(u, p) == {s \in VisibleSubs(p) : subs[s].user_id = u}

Restrict(f, S) == [x \in S |-> f[x]]


\* -------------------------------------------------------- reminder sweep
\* check_reminders(): a fresh session, then _process_due_reminders.
StartReminders(k, kind) ==
    /\ sweeps < MaxSweeps
    /\ rem[k].pc = "idle"
    /\ rem' = [rem EXCEPT ![k] = [IdleRem EXCEPT !.pc = "query", !.kind = kind]]
    /\ sweeps' = sweeps + 1

\* _process_due_reminders, the SELECT of the due reminders; if the store cannot
\* be queried the exception reaches check_reminders, which logs it and returns.
RemQuery(k) ==
    /\ rem[k].pc = "query"
    /\ \/ /\ rem' = [rem EXCEPT ![k] = IdleRem]
          /\ catchup' = IF rem[k].kind = "catchup"
                        THEN [catchup EXCEPT !.reminders = "failed"] ELSE catchup
          /\ UNCHANGED <<seen, reselected>>
       \/ /\ rem' = [rem EXCEPT ![k].pc = "loop", ![k].sel = DueReminders(now),
                                 ![k].task_of = [r \in DueReminders(now) |->
                                                   reminders[r].task_id],
                                 ![k].due = DueReminders(now)]
          /\ seen' = seen \cup DueReminders(now)
          /\ reselected' = reselected \cup (seen \cap DueReminders(now))
          /\ UNCHANGED catchup
    /\ UNCHANGED <<now, store, phase, rec, counters, calls, sched>>
    /\ UNCHANGED <<notified, duplicated, marked, remarked, goneSubs, recalled, lastEdit>>

\* LoadReminder with the test for subscriptions inverted: a reminder whose
\* owner has subscriptions is marked sent without a send.
LoadReminder_unsent(p, r) ==
    [p EXCEPT !.due = p.due \ {r}, !.dirty = @ \cup {r}]

\* LoadReminder returning without a mark when the task is missing.
LoadReminder_skipOrphan(p, r) ==
    LET t == p.task_of[r]
        rest == p.due \ {r}
    IN  IF t \notin DOMAIN tasks
        THEN [p EXCEPT !.due = rest]
        ELSE IF SubscriptionsOf(tasks[t].user_id, p) = {}
             THEN [p EXCEPT !.due = rest, !.dirty = @ \cup {r}]
             ELSE [p EXCEPT !.due = rest, !.pc = "send", !.cur = r,
                            !.todo = SubscriptionsOf(tasks[t].user_id, p)]

\* _send_reminder up to the loop over the subscriptions, for the next due
\* reminder r of session p: a missing task or no subscription marks the
\* reminder sent; otherwise the subscriptions are to be sent to.
LoadReminder(p, r) ==
    LET t == p.task_of[r]
        rest == p.due \ {r}
    IN  IF t \notin DOMAIN tasks
        THEN [p EXCEPT !.due = rest, !.dirty = @ \cup {r}]
        ELSE IF SubscriptionsOf(tasks[t].user_id, p) = {}
             THEN [p EXCEPT !.due = rest, !.dirty = @ \cup {r}]
             ELSE [p EXCEPT !.due = rest, !.pc = "send", !.cur = r,
                            !.todo = SubscriptionsOf(tasks[t].user_id, p)]

RemLoad(k) ==
    /\ rem[k].pc = "loop"
    /\ \E r \in rem[k].due :
          /\ rem' = [rem EXCEPT ![k] = LoadReminder(rem[k], r)]
          /\ catchup' = IF rem[k].kind = "catchup"
                        THEN [catchup EXCEPT !.doneReminders = @ \cup {r}] ELSE catchup
    /\ UNCHANGED <<now, store, phase, rec, hist, counters, calls, sched>>

\* AfterPush deleting the subscription after every WebPushException.
AfterPush_deleteOnFailure(p, s, o) ==
    LET del == IF o \in {"gone", "push_error"} THEN p.deleted \cup {s} ELSE p.deleted
        rest == p.todo \ {s}
    IN  IF o = "error"
        THEN [p EXCEPT !.pc = "loop", !.cur = "none", !.todo = {}]
        ELSE IF rest = {}
             THEN [p EXCEPT !.pc = "loop", !.cur = "none", !.todo = {},
                            !.deleted = del, !.dirty = @ \cup {p.cur}]
             ELSE [p EXCEPT !.todo = rest, !.deleted = del]

\* AfterPush re-raising a WebPushException that is not a 410.
AfterPush_raising(p, s, o) ==
    LET del == IF o = "gone" THEN p.deleted \cup {s} ELSE p.deleted
        rest == p.todo \ {s}
    IN  IF o \in {"error", "push_error"}
        THEN [p EXCEPT !.pc = "loop", !.cur = "none", !.todo = {}]
        ELSE IF rest = {}
             THEN [p EXCEPT !.pc = "loop", !.cur = "none", !.todo = {},
                            !.deleted = del, !.dirty = @ \cup {p.cur}]
             ELSE [p EXCEPT !.todo = rest, !.deleted = del]

\* _send_push_notification for subscription s with outcome o of webpush(), and
\* the rest of _send_reminder's loop: a 410 deletes the subscription in the
\* session, another WebPushException is logged, any other exception leaves
\* _send_reminder (caught and logged in _process_due_reminders); after the last
\* subscription the reminder is marked sent.
AfterPush(p, s, o) ==
    LET del == IF o = "gone" THEN p.deleted \cup {s} ELSE p.deleted
        rest == p.todo \ {s}
    IN  IF o = "error"
        THEN [p EXCEPT !.pc = "loop", !.cur = "none", !.todo = {}]
        ELSE IF rest = {}
             THEN [p EXCEPT !.pc = "loop", !.cur = "none", !.todo = {},
                            !.deleted = del, !.dirty = @ \cup {p.cur}]
             ELSE [p EXCEPT !.todo = rest, !.deleted = del]

\* The webpush() call itself, recorded in the invocation.
Tried(p, s, o) == [p EXCEPT !.tried = @ \cup {<<p.cur, s, o>>}]

RemSend(k) ==
    /\ rem[k].pc = "send"
    /\ \E s \in rem[k].todo, o \in Outcomes :
          /\ rem' = [rem EXCEPT ![k] = AfterPush(Tried(rem[k], s, o), s, o)]
          /\ notified' = IF o = "ok" THEN notified \cup {<<rem[k].cur, s>>} ELSE notified
          /\ duplicated' = IF o = "ok" /\ <<rem[k].cur, s>> \in notified
                           THEN duplicated \cup {<<rem[k].cur, s>>} ELSE duplicated
          /\ goneSubs' = IF o = "gone" THEN goneSubs \cup {s} ELSE goneSubs
          /\ recalled' = IF s \in goneSubs THEN recalled \cup {s} ELSE recalled
    /\ UNCHANGED <<now, store, driver, rec, seen, reselected, marked, remarked, lastEdit,
                   counters, calls, sched>>

\* session.commit() at the end of _process_due_reminders: the flush writes
\* notification_sent = true for the reminders the session marked and deletes
\* the subscriptions it deleted.
CommitReminders(p) ==
    [r \in DOMAIN reminders |->
        IF r \in p.dirty THEN [reminders[r] EXCEPT !.notification_sent = TRUE]
        ELSE reminders[r]]

CommitSubs(p) == Restrict(subs, DOMAIN subs \ p.deleted)

\* The commit goes through; the UPDATE of a row that was deleted meanwhile
\* matches no row.
RemCommitted(k) ==
    /\ reminders' = CommitReminders(rem[k])
    /\ subs' = CommitSubs(rem[k])
    /\ LET flipped == {r \in DOMAIN reminders :
                          ~reminders[r].notification_sent /\ reminders'[r].notification_sent}
       IN  /\ marked' = marked \cup flipped
           /\ remarked' = remarked \cup (marked \cap flipped)
    /\ rem' = [rem EXCEPT ![k] = IdleRem]
    /\ catchup' = IF rem[k].kind = "catchup"
                  THEN [catchup EXCEPT !.reminders = "ok"] ELSE catchup

\* The flush finds that the UPDATE of a row that was deleted meanwhile matched
\* no row and raises StaleDataError: the transaction is rolled back, the
\* exception reaches check_reminders, which logs it and returns.
RemCommitFailed(k) ==
    /\ rem[k].dirty \ DOMAIN reminders # {}
    /\ rem' = [rem EXCEPT ![k] = IdleRem]
    /\ catchup' = IF rem[k].kind = "catchup"
                  THEN [catchup EXCEPT !.reminders = "failed"] ELSE catchup
    /\ UNCHANGED <<reminders, subs, marked, remarked>>

RemCommit(k) ==
    /\ rem[k].pc = "loop"
    /\ rem[k].due = {}
    /\ RemCommitted(k) \/ RemCommitFailed(k)
    /\ UNCHANGED <<now, tasks, rules, phase, rec, counters, calls, sched>>
    /\ UNCHANGED <<notified, duplicated, seen, reselected, goneSubs, recalled, lastEdit>>

\* ------------------------------------------------------------ set_due_date
\* UpdateReminder without the reset of notification_sent.
UpdateReminder_keepFlag(row, due, rt) ==
    LET a == IF due # {} THEN [row EXCEPT !.due_date = due] ELSE row
    IN  IF rt # {} THEN [a EXCEPT !.reminder_time = rt] ELSE a

\* The update branch of _set_due_date_impl on the existing row.
UpdateReminder(row, due, rt) ==
    LET a == IF due # {} THEN [row EXCEPT !.due_date = due] ELSE row
    IN  IF rt # {}
        THEN [a EXCEPT !.reminder_time = rt, !.notification_sent = FALSE]
        ELSE a

ExistingReminder(t) == {r \in DOMAIN reminders : reminders[r].task_id = t}

\* SetDueDate without the check that one of the two arguments is given, on a
\* table without its CHECK.
SetDueDate_unchecked(t, u, due, rt) ==
    LET bad == \/ t \notin DOMAIN tasks
               \/ tasks[t].user_id # u
        ex == ExistingReminder(t)
    IN  /\ IF bad
           THEN UNCHANGED <<reminders, edits, perValue, lastEdit>>
           ELSE /\ edits < MaxEdits
                /\ edits' = edits + 1
                /\ IF ex # {}
                   THEN LET r == CHOOSE x \in ex : TRUE
                        IN  /\ reminders' = [reminders EXCEPT ![r] = UpdateReminder(@, due, rt)]
                            /\ lastEdit' = [kind |-> "updated", withRt |-> (rt # {}),
                                            wasSent |-> reminders[r].notification_sent]
                            /\ IF rt # {} /\ rt # reminders[r].reminder_time
                               THEN /\ notified' = {x \in notified : x[1] # r}
                                    /\ duplicated' = {x \in duplicated : x[1] # r}
                                    /\ seen' = seen \ {r}
                                    /\ reselected' = reselected \ {r}
                                    /\ marked' = marked \ {r}
                                    /\ remarked' = remarked \ {r}
                               ELSE UNCHANGED perValue
                   ELSE /\ ReminderIds \ DOMAIN reminders # {}
                        /\ LET r == CHOOSE x \in ReminderIds \ DOMAIN reminders : TRUE
                           IN  reminders' = reminders @@ (r :> NewReminder(t, due, rt))
                        /\ lastEdit' = [kind |-> "created", withRt |-> (rt # {}),
                                        wasSent |-> FALSE]
                        /\ UNCHANGED perValue
        /\ UNCHANGED <<now, tasks, rules, subs, driver, rem, rec, goneSubs, recalled, sweeps, stops,
                       calls, sched>>

\* set_due_date(task_id, user_id, due_date, reminder_time) and its
\* _set_due_date_impl, in one transaction.
SetDueDate(t, u, due, rt) ==
    LET bad == \/ (due = {} /\ rt = {})
               \/ t \notin DOMAIN tasks
               \/ tasks[t].user_id # u
        ex == ExistingReminder(t)
    IN  /\ IF bad
           THEN UNCHANGED <<reminders, edits, perValue, lastEdit>>
           ELSE /\ edits < MaxEdits
                /\ edits' = edits + 1
                /\ IF ex # {}
                   THEN LET r == CHOOSE x \in ex : TRUE
                        IN  /\ reminders' = [reminders EXCEPT ![r] = UpdateReminder(@, due, rt)]
                            /\ lastEdit' = [kind |-> "updated", withRt |-> (rt # {}),
                                            wasSent |-> reminders[r].notification_sent]
                            /\ IF rt # {} /\ rt # reminders[r].reminder_time
                               THEN /\ notified' = {x \in notified : x[1] # r}
                                    /\ duplicated' = {x \in duplicated : x[1] # r}
                                    /\ seen' = seen \ {r}
                                    /\ reselected' = reselected \ {r}
                                    /\ marked' = marked \ {r}
                                    /\ remarked' = remarked \ {r}
                               ELSE UNCHANGED perValue
                   ELSE /\ ReminderIds \ DOMAIN reminders # {}
                        /\ LET r == CHOOSE x \in ReminderIds \ DOMAIN reminders : TRUE
                           IN  reminders' = reminders @@ (r :> NewReminder(t, due, rt))
                        /\ lastEdit' = [kind |-> "created", withRt |-> (rt # {}),
                                        wasSent |-> FALSE]
                        /\ UNCHANGED perValue
        /\ UNCHANGED <<now, tasks, rules, subs, driver, rem, rec, goneSubs, recalled, sweeps, stops,
                       calls, sched>>

\* -------------------------------------------------------------- delete_task
\* delete_task(task_id, user_id) and its _delete_task_impl: the DELETE of the
\* task row cascades to the reminder and the rule of the task (ON DELETE
\* CASCADE of their task_id).
DeleteTask(t, u) ==
    /\ IF t \in DOMAIN tasks /\ tasks[t].user_id = u
       THEN /\ tasks' = Restrict(tasks, DOMAIN tasks \ {t})
            /\ reminders' = Restrict(reminders,
                                {r \in DOMAIN reminders : reminders[r].task_id # t})
            /\ rules' = Restrict(rules, {q \in DOMAIN rules : rules[q].task_id # t})
       ELSE UNCHANGED <<tasks, reminders, rules>>
    /\ UNCHANGED <<now, subs, driver, rem, rec, hist, counters, calls, sched>>

\* -------------------------------------------------------- update_recurrence
Frequencies == {"daily", "weekly", "monthly", "yearly"}
\* The arguments update_recurrence is called with; {} is an argument left out.
FrequencyArgs == {{}, {"daily"}, {"monthly"}, {"hourly"}}
IntervalArgs == {{}, {0}, {2}}
EndDateArgs == {{}, {0}}

\* The one value of a column or argument that is present.
The(S) == CHOOSE x \in S : TRUE

\* select(RecurrenceRule).where(RecurrenceRule.task_id == task_uuid)
RuleOf(t) == {q \in DOMAIN rules : rules[q].task_id = t}

\* update_recurrence(task_id, user_id, frequency, interval, end_date_str) and
\* its _update_recurrence_impl: an error returns before the commit and the
\* session is dropped; otherwise the arguments given replace the rule's
\* fields, next_occurrence is recomputed from now with the rule's frequency,
\* interval and end_date, and kept as it is if the calculator returns None.
UpdateRecurrence(t, u, f, iv, e) ==
    /\ IF /\ t \in DOMAIN tasks
          /\ tasks[t].user_id = u
          /\ RuleOf(t) # {}
          /\ f \subseteq Frequencies
          /\ \A x \in iv : x >= 1
       THEN LET q == The(RuleOf(t))
                frequency == IF f # {} THEN The(f) ELSE rules[q].frequency
                interval == IF iv # {} THEN The(iv) ELSE rules[q].interval
                end_date == IF e # {} THEN e ELSE rules[q].end_date
                next_occ == calculate_next_occurrence(frequency, interval, now, end_date,
                                                      {}, {})
            IN  rules' = [rules EXCEPT ![q] =
                            [@ EXCEPT !.frequency = frequency, !.interval = interval,
                                      !.end_date = end_date,
                                      !.next_occurrence =
                                          IF next_occ # {} THEN The(next_occ) ELSE @]]
       ELSE UNCHANGED rules
    /\ UNCHANGED <<now, tasks, reminders, subs, driver, rem, rec, hist, counters, calls, sched>>

\* The arguments create_recurrence is called with; {} is an argument left out
\* (None), and an interval of 0 is one the table's CHECK refuses.
CreateFrequencyArgs == Frequencies \cup {"hourly"}
CreateIntervalArgs == {0, 1, 2, 4, 12, 13}
DaysOfWeekArgs == {{}, {{0, 2}}}
DayOfMonthArgs == {{}, {1}, {15}, {31}}

\* CHECK ("interval" >= 1) and CHECK (day_of_month IS NULL OR (day_of_month >=
\* 1 AND day_of_month <= 31)) of recurrence_rules: the commit of a row that
\* fails one raises and stores nothing.
RuleChecks(row) ==
    /\ row.interval >= 1
    /\ \A d \in row.day_of_month : d >= 1 /\ d <= 31

\* create_recurrence(task_id, user_id, frequency, interval, days_of_week,
\* day_of_month, end_date_str) and its _create_recurrence_impl: an unknown
\* frequency, a task that is missing or another user's and a task that has a
\* rule already return an error before the calculator is called; the first
\* occurrence is calculated from now, and None returns an error; otherwise the
\* row is added and committed.
CreateRecurrence(t, u, f, iv, dow, dom, e) ==
    /\ IF /\ f \in Frequencies
          /\ t \in DOMAIN tasks
          /\ tasks[t].user_id = u
          /\ RuleOf(t) = {}
       THEN LET next_occ == calculate_next_occurrence(f, iv, now, e, dow, dom)
                rule == [task_id |-> t, frequency |-> f, interval |-> iv,
                         days_of_week |-> dow, day_of_month |-> dom, end_date |-> e,
                         next_occurrence |-> The(next_occ)]
                stored == next_occ # {} /\ RuleChecks(rule)
            IN  /\ stored => \E q \in RuleIds : q \notin DOMAIN rules
                /\ rules' = IF stored
                            THEN rules @@ ((CHOOSE q \in RuleIds : q \notin DOMAIN rules) :> rule)
                            ELSE rules
                /\ lastEdit' = [kind |-> "create_recurrence", frequency |-> f,
                                interval |-> iv, current |-> now, end_date |-> e,
                                days_of_week |-> dow, day_of_month |-> dom,
                                result |-> next_occ, stored |-> stored]
       ELSE UNCHANGED <<rules, lastEdit>>
    /\ UNCHANGED <<now, tasks, reminders, subs, driver, rem, rec, perValue, goneSubs,
                   recalled, counters, calls, sched>>

\* remove_recurrence(task_id, user_id) and its _remove_recurrence_impl: the
\* rule of a task of the caller's is deleted; anything else is an error.
RemoveRecurrence(t, u) ==
    /\ IF /\ t \in DOMAIN tasks
          /\ tasks[t].user_id = u
          /\ RuleOf(t) # {}
       THEN rules' = Restrict(rules, DOMAIN rules \ RuleOf(t))
       ELSE UNCHANGED rules
    /\ UNCHANGED <<now, tasks, reminders, subs, driver, rem, rec, hist, counters, calls, sched>>

\* -------------------------------------------- the tools, step by step
\* A call of create_recurrence or set_due_date reads the store and commits
\* afterwards; other sessions may commit in between.  The constraints of
\* the tables are checked at the commit.

\* A call that returned one of the tools' "Error: ..." strings before its
\* commit: the session is closed with what it holds.
Refused(tool, error) ==
    [pc |-> "idle", outcome |-> "error", tool |-> tool, error |-> error]

\* UNIQUE (task_id) and the foreign key to tasks.id of recurrence_rules, with
\* the table's CHECKs: whether the INSERT of row commits.
RuleInsertable_noUnique(row) ==
    /\ RuleChecks(row)
    /\ row.task_id \in DOMAIN tasks

RuleInsertable(row) ==
    /\ RuleChecks(row)
    /\ row.task_id \in DOMAIN tasks
    /\ RuleOf(row.task_id) = {}

\* UNIQUE (task_id), the foreign key to tasks.id and CHECK (due_date IS NOT
\* NULL OR reminder_time IS NOT NULL) of reminder_metadata.
ReminderInsertable(row) ==
    /\ row.due_date # {} \/ row.reminder_time # {}
    /\ row.task_id \in DOMAIN tasks
    /\ ExistingReminder(row.task_id) = {}

\* _create_recurrence_impl up to session.add(rule): the validations, the two
\* SELECTs and the calculator.
CreateRecurrenceSelect(c, t, u, f, iv, dow, dom, e) ==
    /\ calls[c].pc = "idle"
    /\ LET next_occ == calculate_next_occurrence(f, iv, now, e, dow, dom)
       IN  IF /\ f \in Frequencies
              /\ t \in DOMAIN tasks
              /\ tasks[t].user_id = u
              /\ RuleOf(t) = {}
              /\ next_occ # {}
           THEN calls' = [calls EXCEPT ![c] =
                            [pc |-> "insert_rule", outcome |-> "none",
                             row |-> [task_id |-> t, frequency |-> f, interval |-> iv,
                                      days_of_week |-> dow, day_of_month |-> dom,
                                      end_date |-> e, next_occurrence |-> The(next_occ)]]]
           ELSE calls' = [calls EXCEPT ![c] =
                            Refused("create_recurrence",
                                IF f \notin Frequencies THEN "invalid_frequency"
                                ELSE IF t \notin DOMAIN tasks \/ tasks[t].user_id # u
                                     THEN "not_found"
                                ELSE IF RuleOf(t) # {} THEN "exists" ELSE "past_end")]
    /\ UNCHANGED <<now, store, driver, rem, rec, hist, counters, sched>>

\* await session.commit() of _create_recurrence_impl: the INSERT, or the
\* IntegrityError that leaves the call and stores nothing.
CreateRecurrenceCommit(c) ==
    /\ calls[c].pc = "insert_rule"
    /\ IF RuleInsertable(calls[c].row)
       THEN /\ RuleIds \ DOMAIN rules # {}
            /\ rules' = rules @@
                  ((CHOOSE q \in RuleIds : q \notin DOMAIN rules) :> calls[c].row)
            /\ calls' = [calls EXCEPT ![c] = [pc |-> "idle", outcome |-> "committed"]]
       ELSE /\ UNCHANGED rules
            /\ calls' = [calls EXCEPT ![c] = [pc |-> "idle", outcome |-> "integrity_error"]]
    /\ UNCHANGED <<now, tasks, reminders, subs, driver, rem, rec, hist, counters, sched>>

\* set_due_date and _set_due_date_impl up to the commit: the check of the
\* arguments, the SELECT of the task and the SELECT of the existing row, which
\* is then changed in the session or, if there is none, a new row added.
SetDueDateSelect(c, t, u, due, rt) ==
    /\ calls[c].pc = "idle"
    /\ IF \/ (due = {} /\ rt = {})
          \/ t \notin DOMAIN tasks
          \/ tasks[t].user_id # u
       THEN calls' = [calls EXCEPT ![c] =
                        Refused("set_due_date",
                            IF due = {} /\ rt = {} THEN "no_date" ELSE "not_found")]
       ELSE IF ExistingReminder(t) # {}
            THEN LET r == The(ExistingReminder(t))
                 IN  calls' = [calls EXCEPT ![c] =
                                 [pc |-> "update_reminder", outcome |-> "none", id |-> r,
                                  loaded |-> reminders[r], due |-> due, rt |-> rt]]
            ELSE calls' = [calls EXCEPT ![c] =
                             [pc |-> "insert_reminder", outcome |-> "none",
                              row |-> NewReminder(t, due, rt)]]
    /\ UNCHANGED <<now, store, driver, rem, rec, hist, counters, sched>>

\* The UPDATE the session flushes for the existing row: the columns whose
\* value in the session differs from the one loaded, on the row as it is now.
FlushReminder(row, loaded, due, rt) ==
    LET changed == UpdateReminder(loaded, due, rt)
        a == IF changed.due_date # loaded.due_date
             THEN [row EXCEPT !.due_date = changed.due_date] ELSE row
        b == IF changed.reminder_time # loaded.reminder_time
             THEN [a EXCEPT !.reminder_time = changed.reminder_time] ELSE a
    IN  IF changed.notification_sent # loaded.notification_sent
        THEN [b EXCEPT !.notification_sent = changed.notification_sent] ELSE b

\* await session.commit() of _set_due_date_impl: the UPDATE of the row that
\* was loaded (StaleDataError if it is gone) or the INSERT of the new one
\* (IntegrityError if a constraint refuses it).
SetDueDateCommit(c) ==
    /\ calls[c].pc \in {"update_reminder", "insert_reminder"}
    /\ IF calls[c].pc = "update_reminder"
       THEN LET r == calls[c].id
            IN  IF r \in DOMAIN reminders
                THEN LET row == FlushReminder(reminders[r], calls[c].loaded,
                                              calls[c].due, calls[c].rt)
                     IN  /\ reminders' = [reminders EXCEPT ![r] = row]
                         /\ lastEdit' = [kind |-> "updated", withRt |-> (calls[c].rt # {}),
                                         wasSent |-> reminders[r].notification_sent]
                         /\ IF row.reminder_time # reminders[r].reminder_time
                            THEN /\ notified' = {x \in notified : x[1] # r}
                                 /\ duplicated' = {x \in duplicated : x[1] # r}
                                 /\ seen' = seen \ {r}
                                 /\ reselected' = reselected \ {r}
                                 /\ marked' = marked \ {r}
                                 /\ remarked' = remarked \ {r}
                            ELSE UNCHANGED perValue
                         /\ calls' = [calls EXCEPT ![c] =
                                         [pc |-> "idle", outcome |-> "committed"]]
                ELSE /\ UNCHANGED <<reminders, lastEdit, perValue>>
                     /\ calls' = [calls EXCEPT ![c] =
                                     [pc |-> "idle", outcome |-> "stale"]]
       ELSE IF ReminderInsertable(calls[c].row)
            THEN /\ ReminderIds \ DOMAIN reminders # {}
                 /\ reminders' = reminders @@
                       ((CHOOSE r \in ReminderIds : r \notin DOMAIN reminders)
                            :> calls[c].row)
                 /\ lastEdit' = [kind |-> "created",
                                 withRt |-> (calls[c].row.reminder_time # {}),
                                 wasSent |-> FALSE]
                 /\ UNCHANGED perValue
                 /\ calls' = [calls EXCEPT ![c] = [pc |-> "idle", outcome |-> "committed"]]
            ELSE /\ UNCHANGED <<reminders, lastEdit, perValue>>
                 /\ calls' = [calls EXCEPT ![c] =
                                 [pc |-> "idle", outcome |-> "integrity_error"]]
    /\ UNCHANGED <<now, tasks, rules, subs, driver, rem, rec, goneSubs, recalled, counters, sched>>

\* The end_date_str arguments of the tools: a date is the number of its day,
\* and MalformedDate is a string date.fromisoformat() refuses.
MalformedDate == -1
EndDateStrArgs == {{}, {0}, {MalformedDate}}

\* date.fromisoformat(end_date_str); {} is the ValueError.
FromIsoFormat(x) == IF x = MalformedDate THEN {} ELSE {x}

\* The body of _update_recurrence_impl after the two SELECTs, on the rule as
\* the session loaded it: each argument given is checked and assigned in turn,
\* frequency, then interval, then the end date; the first check that fails
\* returns its error with the assignments made before it still on the
\* session's object.  Then next_occurrence is recalculated from now (t) with
\* frequency, interval and end_date only, and assigned unless the calculator
\* returns None; an exception of the calculator leaves the call ("raised").
AssignUpdate(rule, f, iv, e, t) ==
    LET a == IF f # {} /\ The(f) \in Frequencies
             THEN [rule EXCEPT !.frequency = The(f)] ELSE rule
        b == IF iv # {} /\ The(iv) >= 1 THEN [a EXCEPT !.interval = The(iv)] ELSE a
        c == IF e # {} /\ FromIsoFormat(The(e)) # {}
             THEN [b EXCEPT !.end_date = FromIsoFormat(The(e))] ELSE b
        next_occ == calculate_next_occurrence(c.frequency, c.interval, t, c.end_date, {}, {})
    IN  IF f # {} /\ The(f) \notin Frequencies
        THEN [error |-> "invalid_frequency", row |-> rule]
        ELSE IF iv # {} /\ The(iv) < 1
        THEN [error |-> "invalid_interval", row |-> a]
        ELSE IF e # {} /\ FromIsoFormat(The(e)) = {}
        THEN [error |-> "invalid_end_date", row |-> b]
        ELSE IF CalcRaises(c.frequency, c.interval, t, {})
        THEN [error |-> "raised", row |-> c]
        ELSE [error |-> "none",
              row |-> IF next_occ # {} THEN [c EXCEPT !.next_occurrence = The(next_occ)]
                      ELSE c]

\* update_recurrence and _update_recurrence_impl up to the commit.  A call
\* that returns an error leaves the "async with" block of update_recurrence,
\* which closes the session: what was assigned to its object (unsaved) is
\* dropped.
UpdateRecurrenceSelect(c, t, u, f, iv, e) ==
    /\ calls[c].pc = "idle"
    /\ IF t \notin DOMAIN tasks \/ tasks[t].user_id # u
       THEN calls' = [calls EXCEPT ![c] = Refused("update_recurrence", "not_found")]
       ELSE IF RuleOf(t) = {}
       THEN calls' = [calls EXCEPT ![c] = Refused("update_recurrence", "no_rule")]
       ELSE LET q == The(RuleOf(t))
                done == AssignUpdate(rules[q], f, iv, e, now)
            IN  IF done.error # "none"
                THEN calls' = [calls EXCEPT ![c] =
                                  [pc |-> "idle", outcome |-> "error",
                                   tool |-> "update_recurrence", error |-> done.error,
                                   id |-> q, loaded |-> rules[q], unsaved |-> done.row]]
                ELSE calls' = [calls EXCEPT ![c] =
                                  [pc |-> "update_rule", outcome |-> "none", id |-> q,
                                   loaded |-> rules[q], row |-> done.row]]
    /\ UNCHANGED <<now, store, driver, rem, rec, hist, counters, sched>>

\* The UPDATE the session flushes for a rule: the columns whose value on the
\* session's object differs from the one loaded, on the row as it is now.
FlushRule(row, loaded, changed) ==
    LET a == IF changed.frequency # loaded.frequency
             THEN [row EXCEPT !.frequency = changed.frequency] ELSE row
        b == IF changed.interval # loaded.interval
             THEN [a EXCEPT !.interval = changed.interval] ELSE a
        c == IF changed.end_date # loaded.end_date
             THEN [b EXCEPT !.end_date = changed.end_date] ELSE b
    IN  IF changed.next_occurrence # loaded.next_occurrence
        THEN [c EXCEPT !.next_occurrence = changed.next_occurrence] ELSE c

\* UpdateRecurrenceCommit flushing the session of a call that returned an
\* error as well.
UpdateRecurrenceCommit_savingErrors(c) ==
    /\ \/ calls[c].pc = "update_rule"
       \/ /\ calls[c].outcome = "error"
          /\ calls[c].tool = "update_recurrence"
          /\ calls[c].error \in {"invalid_frequency", "invalid_interval", "invalid_end_date"}
          /\ calls[c].unsaved # calls[c].loaded
    /\ LET q == calls[c].id
           row == IF calls[c].pc = "update_rule" THEN calls[c].row ELSE calls[c].unsaved
       IN  IF row = calls[c].loaded
           THEN /\ UNCHANGED rules
                /\ calls' = [calls EXCEPT ![c] = [pc |-> "idle", outcome |-> "committed"]]
           ELSE IF q \in DOMAIN rules
           THEN /\ rules' = [rules EXCEPT ![q] = FlushRule(@, calls[c].loaded, row)]
                /\ calls' = [calls EXCEPT ![c] = [pc |-> "idle", outcome |-> "committed"]]
           ELSE /\ UNCHANGED rules
                /\ calls' = [calls EXCEPT ![c] = [pc |-> "idle", outcome |-> "stale"]]
    /\ UNCHANGED <<now, tasks, reminders, subs, driver, rem, rec, hist, counters, sched>>

\* await session.commit() of _update_recurrence_impl: nothing is written when
\* no column changed; otherwise the UPDATE of the row that was loaded, or
\* StaleDataError if it is gone.
UpdateRecurrenceCommit(c) ==
    /\ calls[c].pc = "update_rule"
    /\ LET q == calls[c].id
       IN  IF calls[c].row = calls[c].loaded
           THEN /\ UNCHANGED rules
                /\ calls' = [calls EXCEPT ![c] = [pc |-> "idle", outcome |-> "committed"]]
           ELSE IF q \in DOMAIN rules
           THEN /\ rules' = [rules EXCEPT ![q] = FlushRule(@, calls[c].loaded, calls[c].row)]
                /\ calls' = [calls EXCEPT ![c] = [pc |-> "idle", outcome |-> "committed"]]
           ELSE /\ UNCHANGED rules
                /\ calls' = [calls EXCEPT ![c] = [pc |-> "idle", outcome |-> "stale"]]
    /\ UNCHANGED <<now, tasks, reminders, subs, driver, rem, rec, hist, counters, sched>>

\* RemoveRecurrenceSelect without the check of the task's owner.
RemoveRecurrenceSelect_anyUser(c, t, u) ==
    /\ calls[c].pc = "idle"
    /\ IF t \notin DOMAIN tasks
       THEN calls' = [calls EXCEPT ![c] = Refused("remove_recurrence", "not_found")]
       ELSE IF RuleOf(t) = {}
       THEN calls' = [calls EXCEPT ![c] = Refused("remove_recurrence", "no_rule")]
       ELSE calls' = [calls EXCEPT ![c] =
                         [pc |-> "delete_rule", outcome |-> "none", id |-> The(RuleOf(t))]]
    /\ UNCHANGED <<now, store, driver, rem, rec, hist, counters, sched>>

\* remove_recurrence and _remove_recurrence_impl up to session.delete(rule).
RemoveRecurrenceSelect(c, t, u) ==
    /\ calls[c].pc = "idle"
    /\ IF t \notin DOMAIN tasks \/ tasks[t].user_id # u
       THEN calls' = [calls EXCEPT ![c] = Refused("remove_recurrence", "not_found")]
       ELSE IF RuleOf(t) = {}
       THEN calls' = [calls EXCEPT ![c] = Refused("remove_recurrence", "no_rule")]
       ELSE calls' = [calls EXCEPT ![c] =
                         [pc |-> "delete_rule", outcome |-> "none", id |-> The(RuleOf(t))]]
    /\ UNCHANGED <<now, store, driver, rem, rec, hist, counters, sched>>

\* await session.commit() of _remove_recurrence_impl: the DELETE of the row
\* that was loaded; a row that is gone already is a warning only.
RemoveRecurrenceCommit(c) ==
    /\ calls[c].pc = "delete_rule"
    /\ rules' = Restrict(rules, DOMAIN rules \ {calls[c].id})
    /\ calls' = [calls EXCEPT ![c] = [pc |-> "idle", outcome |-> "committed"]]
    /\ UNCHANGED <<now, tasks, reminders, subs, driver, rem, rec, hist, counters, sched>>

\* ------------------------------------------------------ recurrence sweep
\* check_recurrence(): a fresh session, then _process_due_recurrences.
StartRecurrence(k, kind) ==
    /\ rec[k].pc = "idle"
    /\ rec' = [rec EXCEPT ![k] = [IdleRec EXCEPT !.pc = "query", !.kind = kind]]

\* select(RecurrenceRule).where(RecurrenceRule.next_occurrence <= now)
DueRules(t) == {q \in DOMAIN rules : rules[q].next_occurrence <= t}

\* RecQuery whose exception is not caught by check_recurrence and ends
\* lifespan().
RecQuery_escaping(k) ==
    /\ rec[k].pc = "query"
    /\ \/ /\ rec' = [rec EXCEPT ![k] = IdleRec]
          /\ catchup' = IF rec[k].kind = "catchup"
                        THEN [catchup EXCEPT !.rules = "failed"] ELSE catchup
          /\ phase' = "stopped"
       \/ /\ rec' = [rec EXCEPT ![k].pc = "loop", ![k].now = now,
                                 ![k].sel = DueRules(now),
                                 ![k].due = Restrict(rules, DueRules(now))]
          /\ UNCHANGED <<catchup, phase>>
    /\ UNCHANGED <<now, store, rem, hist, counters, calls, sched>>

\* _process_due_recurrences, now and the SELECT of the due rules (the session
\* holds the rows as loaded); if the store cannot be queried the exception
\* reaches check_recurrence, which logs it and returns.
RecQuery(k) ==
    /\ rec[k].pc = "query"
    /\ \/ /\ rec' = [rec EXCEPT ![k] = IdleRec]
          /\ catchup' = IF rec[k].kind = "catchup"
                        THEN [catchup EXCEPT !.rules = "failed"] ELSE catchup
       \/ /\ rec' = [rec EXCEPT ![k].pc = "loop", ![k].now = now,
                                 ![k].sel = DueRules(now),
                                 ![k].due = Restrict(rules, DueRules(now))]
          /\ UNCHANGED catchup
    /\ UNCHANGED <<now, store, phase, rem, hist, counters, calls, sched>>

\* NewInstance copying the template's status as well.
NewInstance_copyStatus(original, t) ==
    [user_id |-> original.user_id, title |-> original.title,
     description |-> original.description, status |-> original.status,
     priority |-> original.priority, category_id |-> original.category_id,
     created_at |-> t, updated_at |-> t]

\* Task(id=uuid4(), ...) in _create_task_instance
NewInstance(original, t) ==
    [user_id |-> original.user_id, title |-> original.title,
     description |-> original.description, status |-> "pending",
     priority |-> original.priority, category_id |-> original.category_id,
     created_at |-> t, updated_at |-> t]

\* _create_task_instance leaving a rule alone when the calculator returns None.
CreateTaskInstance_keepEnded(p, q, n, o) ==
    LET rule == p.due[q]
        rest == Restrict(p.due, DOMAIN p.due \ {q})
        next_occ == calculate_next_occurrence(rule.frequency, rule.interval, p.now,
                        rule.end_date, rule.days_of_week, rule.day_of_month)
    IN  IF o = "raise_load"
        THEN [p EXCEPT !.due = rest, !.failed = @ \cup {q}]
        ELSE IF rule.task_id \notin DOMAIN tasks
        THEN [p EXCEPT !.due = rest]
        ELSE IF o = "raise_calc"
        THEN [p EXCEPT !.due = rest, !.failed = @ \cup {q},
                       !.added = @ @@ (n :> NewInstance(tasks[rule.task_id], p.now))]
        ELSE IF next_occ # {}
             THEN [p EXCEPT !.due = rest,
                            !.added = @ @@ (n :> NewInstance(tasks[rule.task_id], p.now)),
                            !.moved = (q :> (CHOOSE x \in next_occ : TRUE)) @@ @]
             ELSE [p EXCEPT !.due = rest,
                            !.added = @ @@ (n :> NewInstance(tasks[rule.task_id], p.now))]

\* _create_task_instance whose exception leaves the loop over the due rules.
CreateTaskInstance_aborting(p, q, n, o) ==
    LET rule == p.due[q]
        rest == Restrict(p.due, DOMAIN p.due \ {q})
        next_occ == calculate_next_occurrence(rule.frequency, rule.interval, p.now,
                        rule.end_date, rule.days_of_week, rule.day_of_month)
    IN  IF o = "raise_load"
        THEN [p EXCEPT !.due = EmptyFn, !.failed = @ \cup {q}]
        ELSE IF rule.task_id \notin DOMAIN tasks
        THEN [p EXCEPT !.due = rest]
        ELSE IF o = "raise_calc"
        THEN [p EXCEPT !.due = EmptyFn, !.failed = @ \cup {q},
                       !.added = @ @@ (n :> NewInstance(tasks[rule.task_id], p.now))]
        ELSE IF next_occ # {}
             THEN [p EXCEPT !.due = rest,
                            !.added = @ @@ (n :> NewInstance(tasks[rule.task_id], p.now)),
                            !.moved = (q :> (CHOOSE x \in next_occ : TRUE)) @@ @]
             ELSE [p EXCEPT !.due = rest,
                            !.added = @ @@ (n :> NewInstance(tasks[rule.task_id], p.now)),
                            !.removed = @ \cup {q}]

\* _create_task_instance calling the calculator before it creates the task,
\* and creating none when the calculator returns None.
CreateTaskInstance_noTaskOnEnd(p, q, n, o) ==
    LET rule == p.due[q]
        rest == Restrict(p.due, DOMAIN p.due \ {q})
        next_occ == calculate_next_occurrence(rule.frequency, rule.interval, p.now,
                        rule.end_date, rule.days_of_week, rule.day_of_month)
    IN  IF o = "raise_load"
        THEN [p EXCEPT !.due = rest, !.failed = @ \cup {q}]
        ELSE IF rule.task_id \notin DOMAIN tasks
        THEN [p EXCEPT !.due = rest]
        ELSE IF o = "raise_calc"
        THEN [p EXCEPT !.due = rest, !.failed = @ \cup {q}]
        ELSE IF next_occ # {}
             THEN [p EXCEPT !.due = rest,
                            !.added = @ @@ (n :> NewInstance(tasks[rule.task_id], p.now)),
                            !.moved = (q :> (CHOOSE x \in next_occ : TRUE)) @@ @]
             ELSE [p EXCEPT !.due = rest, !.removed = @ \cup {q}]

\* CreateTaskInstance deleting the rule whose template task is missing.
CreateTaskInstance_removeOrphan(p, q, n, o) ==
    LET rule == p.due[q]
        rest == Restrict(p.due, DOMAIN p.due \ {q})
        next_occ == calculate_next_occurrence(rule.frequency, rule.interval, p.now,
                        rule.end_date, rule.days_of_week, rule.day_of_month)
    IN  IF o = "raise_load"
        THEN [p EXCEPT !.due = rest, !.failed = @ \cup {q}]
        ELSE IF rule.task_id \notin DOMAIN tasks
        THEN [p EXCEPT !.due = rest, !.removed = @ \cup {q}]
        ELSE IF o = "raise_calc"
        THEN [p EXCEPT !.due = rest, !.failed = @ \cup {q},
                       !.added = @ @@ (n :> NewInstance(tasks[rule.task_id], p.now))]
        ELSE IF next_occ # {}
             THEN [p EXCEPT !.due = rest,
                            !.added = @ @@ (n :> NewInstance(tasks[rule.task_id], p.now)),
                            !.moved = (q :> (CHOOSE x \in next_occ : TRUE)) @@ @]
             ELSE [p EXCEPT !.due = rest,
                            !.added = @ @@ (n :> NewInstance(tasks[rule.task_id], p.now)),
                            !.removed = @ \cup {q}]

\* CreateTaskInstance making no instance for an occurrence that is a day old
\* or older: the rule is moved on only.
CreateTaskInstance_skipMissed(p, q, n, o) ==
    LET rule == p.due[q]
        rest == Restrict(p.due, DOMAIN p.due \ {q})
        next_occ == calculate_next_occurrence(rule.frequency, rule.interval, p.now,
                        rule.end_date, rule.days_of_week, rule.day_of_month)
        made == IF p.now - rule.next_occurrence >= 24 THEN p.added
                ELSE p.added @@ (n :> NewInstance(tasks[rule.task_id], p.now))
    IN  IF o = "raise_load"
        THEN [p EXCEPT !.due = rest, !.failed = @ \cup {q}]
        ELSE IF rule.task_id \notin DOMAIN tasks
        THEN [p EXCEPT !.due = rest]
        ELSE IF o = "raise_calc"
        THEN [p EXCEPT !.due = rest, !.failed = @ \cup {q}, !.added = made]
        ELSE IF next_occ # {}
             THEN [p EXCEPT !.due = rest, !.added = made,
                            !.moved = (q :> (CHOOSE x \in next_occ : TRUE)) @@ @]
             ELSE [p EXCEPT !.due = rest, !.added = made, !.removed = @ \cup {q}]

\* _create_task_instance for the loaded rule q of session p, n the new task's
\* id, o what the call does: the template is selected (a missing template is
\* logged and skipped), the new task is added to the session, then the
\* calculator is called and the rule moved or deleted.  An exception leaves
\* the call where it is raised and is caught and logged by the loop of
\* _process_due_recurrences.
CreateTaskInstance(p, q, n, o) ==
    LET rule == p.due[q]
        rest == Restrict(p.due, DOMAIN p.due \ {q})
        next_occ == calculate_next_occurrence(rule.frequency, rule.interval, p.now,
                        rule.end_date, rule.days_of_week, rule.day_of_month)
    IN  IF o = "raise_load"
        THEN [p EXCEPT !.due = rest, !.failed = @ \cup {q}]
        ELSE IF rule.task_id \notin DOMAIN tasks
        THEN [p EXCEPT !.due = rest]
        ELSE IF o = "raise_calc"
        THEN [p EXCEPT !.due = rest, !.failed = @ \cup {q},
                       !.added = @ @@ (n :> NewInstance(tasks[rule.task_id], p.now))]
        ELSE IF next_occ # {}
             THEN [p EXCEPT !.due = rest,
                            !.added = @ @@ (n :> NewInstance(tasks[rule.task_id], p.now)),
                            !.moved = (q :> (CHOOSE x \in next_occ : TRUE)) @@ @]
             ELSE [p EXCEPT !.due = rest,
                            !.added = @ @@ (n :> NewInstance(tasks[rule.task_id], p.now)),
                            !.removed = @ \cup {q}]

RecCreate(k) ==
    /\ rec[k].pc = "loop"
    /\ \E q \in DOMAIN rec[k].due, o \in RowOutcomes :
          /\ InstanceIds \ (DOMAIN tasks \cup DOMAIN rec[k].added) # {}
          /\ LET n == CHOOSE x \in InstanceIds \ (DOMAIN tasks \cup DOMAIN rec[k].added) : TRUE
             IN  rec' = [rec EXCEPT ![k] = CreateTaskInstance(rec[k], q, n, o)]
          /\ catchup' = IF rec[k].kind = "catchup"
                        THEN [catchup EXCEPT !.doneRules = @ \cup {q}] ELSE catchup
    /\ UNCHANGED <<now, store, phase, rem, hist, counters, calls, sched>>

\* CommitRules without the UPDATE of the rules the sweep moved.
CommitRules_keepDue(p) ==
    [q \in DOMAIN rules \ p.removed |-> rules[q]]

\* session.commit() at the end of _process_due_recurrences.
CommitRules(p) ==
    [q \in DOMAIN rules \ p.removed |->
        IF q \in DOMAIN p.moved THEN [rules[q] EXCEPT !.next_occurrence = p.moved[q]]
        ELSE rules[q]]

\* RecCommitted marking the template of every new instance complete.
RecCommitted_completingTemplates(k) ==
    /\ tasks' = rec[k].added @@
                   [t \in DOMAIN tasks |->
                       IF \E q \in DOMAIN rec[k].moved \cap DOMAIN rules : rules[q].task_id = t
                       THEN [tasks[t] EXCEPT !.status = "complete"] ELSE tasks[t]]
    /\ rules' = CommitRules(rec[k])
    /\ rec' = [rec EXCEPT ![k] = IdleRec]
    /\ catchup' = IF rec[k].kind = "catchup"
                  THEN [catchup EXCEPT !.rules = "ok"] ELSE catchup

\* The commit goes through; the UPDATE or DELETE of a rule that was deleted
\* meanwhile matches no row.
RecCommitted(k) ==
    /\ tasks' = rec[k].added @@ tasks
    /\ rules' = CommitRules(rec[k])
    /\ rec' = [rec EXCEPT ![k] = IdleRec]
    /\ catchup' = IF rec[k].kind = "catchup"
                  THEN [catchup EXCEPT !.rules = "ok"] ELSE catchup

\* The flush finds that the UPDATE of a rule that was deleted meanwhile
\* matched no row and raises StaleDataError: the transaction is rolled back,
\* the exception reaches check_recurrence, which logs it and returns.
RecCommitFailed(k) ==
    /\ DOMAIN rec[k].moved \ DOMAIN rules # {}
    /\ rec' = [rec EXCEPT ![k] = IdleRec]
    /\ catchup' = IF rec[k].kind = "catchup"
                  THEN [catchup EXCEPT !.rules = "failed"] ELSE catchup
    /\ UNCHANGED <<tasks, rules>>

RecCommit(k) ==
    /\ rec[k].pc = "loop"
    /\ DOMAIN rec[k].due = {}
    /\ RecCommitted(k) \/ RecCommitFailed(k)
    /\ UNCHANGED <<now, reminders, subs, phase, rem, hist, counters, calls, sched>>

\* ---------------------------------------------------------------- driver
Running == {k \in Slots : rem[k].pc # "idle"}
RunningRec == {k \in Slots : rec[k].pc # "idle"}
FirstOf(S) == CHOOSE k \in S : \A j \in S : k <= j

\* lifespan() starting the scheduler without the catch-up sweeps.
LifespanStart_noCatchup ==
    /\ phase = "stopped"
    /\ phase' = "serving"
    /\ catchup' = [NoCatchup EXCEPT !.dueRules = DueRules(now),
                                    !.dueReminders = DueReminders(now)]
    /\ UNCHANGED <<now, store, rem, rec, hist, counters, calls, sched>>

\* lifespan(): startup, the catch-up call of check_recurrence.
LifespanStart ==
    /\ phase = "stopped"
    /\ phase' = "catchup_recurrence"
    /\ catchup' = [NoCatchup EXCEPT !.dueRules = DueRules(now),
                                    !.dueReminders = DueReminders(now)]
    /\ StartRecurrence(FirstOf(Slots \ RunningRec), "catchup")
    /\ UNCHANGED <<now, store, rem, hist, counters, calls, sched>>

\* lifespan(): check_recurrence has returned, the catch-up call of
\* check_reminders.
LifespanCatchupReminders ==
    /\ phase = "catchup_recurrence"
    /\ RunningRec = {}
    /\ phase' = "catchup_reminders"
    /\ StartReminders(FirstOf(Slots \ Running), "catchup")
    /\ UNCHANGED <<now, store, catchup, rec, hist, edits, stops, calls, sched>>

\* AddJobs with half an interval of grace for check_recurrence.
AddJobs_halfGrace(env) ==
    [check_recurrence |-> [interval |-> env.recurrence * 60,
                           misfire_grace_time |-> env.recurrence * 30],
     check_reminders |-> [interval |-> env.reminder,
                          misfire_grace_time |-> env.reminder * 2]]

\* The two scheduler.add_job calls of lifespan(): the job table, in seconds,
\* for the intervals the environment configures.
AddJobs(env) ==
    [check_recurrence |-> [interval |-> env.recurrence * 60,
                           misfire_grace_time |-> env.recurrence * 60],
     check_reminders |-> [interval |-> env.reminder,
                          misfire_grace_time |-> env.reminder * 2]]

\* add_job raises TypeError unless misfire_grace_time is a positive integer.
JobsAccepted(jobs) == \A j \in DOMAIN jobs : jobs[j].misfire_grace_time > 0

\* LifespanStartScheduler without the await of check_reminders.
LifespanStartScheduler_early ==
    /\ phase = "catchup_reminders"
    /\ IF JobsAccepted(AddJobs(sched.env))
       THEN /\ phase' = "serving"
            /\ sched' = [sched EXCEPT !.jobs = AddJobs(sched.env)]
            /\ UNCHANGED <<catchup, rem, rec>>
       ELSE /\ phase' = "stopped"
            /\ catchup' = NoCatchup
            /\ rem' = [k \in Slots |-> IdleRem]
            /\ rec' = [k \in Slots |-> IdleRec]
            /\ UNCHANGED sched
    /\ UNCHANGED <<now, store, hist, counters, calls>>

\* lifespan(): check_reminders has returned; add_job twice and
\* scheduler.start().  An interval the scheduler refuses ends lifespan() and
\* with it the process.
LifespanStartScheduler ==
    /\ phase = "catchup_reminders"
    /\ Running = {}
    /\ IF JobsAccepted(AddJobs(sched.env))
       THEN /\ phase' = "serving"
            /\ sched' = [sched EXCEPT !.jobs = AddJobs(sched.env)]
            /\ UNCHANGED <<catchup, rem, rec>>
       ELSE /\ phase' = "stopped"
            /\ catchup' = NoCatchup
            /\ rem' = [k \in Slots |-> IdleRem]
            /\ rec' = [k \in Slots |-> IdleRec]
            /\ UNCHANGED sched
    /\ UNCHANGED <<now, store, hist, counters, calls>>

\* CanSubmit without a limit on the running invocations.
CanSubmit_unbounded(n) == n < Cardinality(Slots)

\* The scheduler submits a job at its timer's tick unless max_instances
\* invocations of that job are running; n is the number now running.
CanSubmit(n) == n < MaxInstances

Missed(procs, running) ==
    [k \in Slots |-> IF k \in running THEN [procs[k] EXCEPT !.missed = TRUE] ELSE procs[k]]

\* The timer of job check_reminders fires.
TickReminders ==
    /\ phase = "serving"
    /\ IF CanSubmit(Cardinality(Running))
       THEN /\ Slots \ Running # {}
            /\ StartReminders(FirstOf(Slots \ Running), "tick")
       ELSE /\ rem' = Missed(rem, Running)
            /\ UNCHANGED sweeps
    /\ UNCHANGED <<now, store, driver, rec, hist, edits, stops, calls, sched>>

\* The timer of job check_recurrence fires.
TickRecurrence ==
    /\ phase = "serving"
    /\ IF CanSubmit(Cardinality(RunningRec))
       THEN /\ Slots \ RunningRec # {}
            /\ StartRecurrence(FirstOf(Slots \ RunningRec), "tick")
       ELSE rec' = Missed(rec, RunningRec)
    /\ UNCHANGED <<now, store, driver, rem, hist, counters, calls, sched>>

\* A run time of a job is dropped when the scheduler gets to it more than
\* misfire_grace_time seconds late.
Misfires(job, d) == d > sched.jobs[job].misfire_grace_time

\* How late the scheduler gets to a run time: a whole interval, or a second
\* more than the grace time.
Lateness == {"one_interval", "past_grace"}
Delay(job, w) ==
    IF w = "one_interval" THEN sched.jobs[job].interval
    ELSE sched.jobs[job].misfire_grace_time + 1

\* The scheduler gets to a run time of check_reminders late.
TickRemindersLate(w) ==
    /\ phase = "serving"
    /\ LET d == Delay("check_reminders", w) IN
       IF Misfires("check_reminders", d)
       THEN /\ sched' = [sched EXCEPT !.misfired = @ \cup {<<"check_reminders", d>>}]
            /\ UNCHANGED <<rem, sweeps>>
       ELSE /\ sched' = [sched EXCEPT !.late = @ \cup {<<"check_reminders", d>>}]
            /\ IF CanSubmit(Cardinality(Running))
               THEN /\ Slots \ Running # {}
                    /\ StartReminders(FirstOf(Slots \ Running), "tick")
               ELSE /\ rem' = Missed(rem, Running)
                    /\ UNCHANGED sweeps
    /\ UNCHANGED <<now, store, driver, rec, hist, edits, stops, calls>>

\* The scheduler gets to a run time of check_recurrence late.
TickRecurrenceLate(w) ==
    /\ phase = "serving"
    /\ LET d == Delay("check_recurrence", w) IN
       IF Misfires("check_recurrence", d)
       THEN /\ sched' = [sched EXCEPT !.misfired = @ \cup {<<"check_recurrence", d>>}]
            /\ UNCHANGED rec
       ELSE /\ sched' = [sched EXCEPT !.late = @ \cup {<<"check_recurrence", d>>}]
            /\ IF CanSubmit(Cardinality(RunningRec))
               THEN /\ Slots \ RunningRec # {}
                    /\ StartRecurrence(FirstOf(Slots \ RunningRec), "tick")
               ELSE rec' = Missed(rec, RunningRec)
    /\ UNCHANGED <<now, store, driver, rem, hist, counters, calls>>

\* The process stops (shutdown or crash): the sessions of the running sweeps
\* are lost with what they had not committed; the store stays.
Stop ==
    /\ phase # "stopped"
    /\ stops < MaxStops
    /\ stops' = stops + 1
    /\ phase' = "stopped"
    /\ catchup' = NoCatchup
    /\ rem' = [k \in Slots |-> IdleRem]
    /\ rec' = [k \in Slots |-> IdleRec]
    /\ sched' = [sched EXCEPT !.jobs = EmptyFn]
    /\ UNCHANGED <<now, store, hist, sweeps, edits, calls>>

AdvanceClock ==
    /\ now < MaxTime
    /\ now' = now + 1
    /\ UNCHANGED <<store, driver, rem, rec, hist, counters, calls, sched>>

\* --------------------------------------------------------- specifications
\* The driver with the reminder job; the recurrence job runs at startup and
\* finds no rule.
Engine ==
    \/ LifespanStart
    \/ LifespanCatchupReminders
    \/ LifespanStartScheduler
    \/ TickReminders
    \/ \E k \in Slots : RecQuery(k)
    \/ \E k \in Slots : RecCommit(k)
    \/ \E k \in Slots : RemQuery(k)
    \/ \E k \in Slots : RemLoad(k)
    \/ \E k \in Slots : RemSend(k)
    \/ \E k \in Slots : RemCommit(k)

Next ==
    \/ Engine
    \/ Stop
    \/ AdvanceClock

Spec == Init /\ [][Next]_vars

\* The users' set_due_date calls against a process that does not stop.
NextEdit ==
    \/ Engine
    \/ AdvanceClock
    \/ \E t \in TaskIds, u \in Users, due \in DueArgs, rt \in OptTimes :
          SetDueDate(t, u, due, rt)

\* Only t1 has a reminder when the users start editing.
InitEdit ==
    /\ InitRest
    /\ tasks = [t \in TaskIds |-> UserTask(t, "u1")]
    /\ reminders = ("r1" :> NewReminder("t1", {}, {0}))
    /\ subs = [s \in SubIds |-> [user_id |-> IF s = "s3" THEN "u2" ELSE "u1"]]
    /\ rules = EmptyFn

SpecEdit == InitEdit /\ [][NextEdit]_vars

\* The set_due_date tool alone, called on every store it can find: t1 has a
\* reminder in any state (sent only if it has a reminder_time), t2 has one or
\* none.
ReminderRows(t) ==
    {row \in [task_id : {t}, due_date : OptTimes, reminder_time : OptTimes,
              notification_sent : BOOLEAN, snooze_until : {{}}] :
        /\ row.due_date # {} \/ row.reminder_time # {}
        /\ row.notification_sent => row.reminder_time # {}}

InitTool ==
    /\ InitRest
    /\ tasks = [t \in TaskIds |-> UserTask(t, "u1")]
    /\ \E a \in ReminderRows("t1") :
          \/ reminders = ("r1" :> a)
          \/ \E c \in ReminderRows("t2") : reminders = ("r1" :> a) @@ ("r2" :> c)
    /\ subs = [s \in SubIds |-> [user_id |-> IF s = "s3" THEN "u2" ELSE "u1"]]
    /\ rules = EmptyFn

NextTool ==
    \E t \in TaskIds, u \in Users, due \in DueArgs, rt \in OptTimes :
        SetDueDate(t, u, due, rt)

SpecTool == InitTool /\ [][NextTool]_vars

\* The reminder sweep over every kind of reminder row: the reminder of t1 is
\* in any state of its reminder_time, notification_sent and snooze_until
\* columns, the reminder of t2 is due from time 0.
SnoozedRows(t) ==
    {row \in [task_id : {t}, due_date : DueArgs, reminder_time : OptTimes,
              notification_sent : BOOLEAN, snooze_until : OptTimes] :
        /\ (row.due_date = {}) = (row.reminder_time # {})
        /\ row.notification_sent => row.reminder_time # {}}

InitQuery ==
    /\ InitRest
    /\ tasks = [t \in TaskIds |-> UserTask(t, "u1")]
    /\ \E a \in SnoozedRows("t1") :
          reminders = ("r1" :> a) @@ ("r2" :> NewReminder("t2", {}, {0}))
    /\ subs = [s \in {"s1"} |-> [user_id |-> "u1"]]
    /\ rules = EmptyFn

NextQuery ==
    \/ Engine
    \/ AdvanceClock

SpecQuery == InitQuery /\ [][NextQuery]_vars

\* The reminder sweep against users who delete tasks: t1 belongs to u1, who
\* has a subscription, t2 to u2, who has none; both reminders are due.
InitDelete ==
    /\ InitRest
    /\ tasks = ("t1" :> UserTask("t1", "u1")) @@ ("t2" :> UserTask("t2", "u2"))
    /\ reminders = ("r1" :> NewReminder("t1", {}, {0}))
                        @@ ("r2" :> NewReminder("t2", {}, {0}))
    /\ subs = [s \in {"s1"} |-> [user_id |-> "u1"]]
    /\ rules = EmptyFn

NextDelete ==
    \/ Engine
    \/ Stop
    \/ \E t \in TaskIds, u \in Users : DeleteTask(t, u)

SpecDelete == InitDelete /\ [][NextDelete]_vars

\* The recurrence job over rules of every kind: the rule of t1 is daily or
\* monthly, without an end date or ending on day 0 or day 1, and due from
\* time 0 or from time MaxTime; the rule of t2 is daily without an end and
\* due; t1 is pending or complete.  No reminder is stored: the reminder job
\* runs its catch-up sweep, which startup waits for, and its timer ticks,
\* which would find nothing, are left out.
TemplateTask(t, u, st) == [UserTask(t, u) EXCEPT !.status = st, !.priority = "High"]

NewRule(t, f, e, nx) ==
    [task_id |-> t, frequency |-> f, interval |-> 1, days_of_week |-> {},
     day_of_month |-> {}, end_date |-> e, next_occurrence |-> nx]

InitRules ==
    /\ InitRest
    /\ \E st \in {"pending", "complete"} :
          tasks = ("t1" :> TemplateTask("t1", "u2", st)) @@ ("t2" :> UserTask("t2", "u1"))
    /\ \E f \in {"daily", "monthly"}, e \in {{}, {0}, {1}}, nx \in Times :
          rules = ("q1" :> NewRule("t1", f, e, nx)) @@ ("q2" :> NewRule("t2", "daily", {}, 0))
    /\ reminders = EmptyFn
    /\ subs = EmptyFn

NextRules ==
    \/ LifespanStart
    \/ LifespanCatchupReminders
    \/ LifespanStartScheduler
    \/ TickRecurrence
    \/ \E k \in Slots : RecQuery(k)
    \/ \E k \in Slots : RecCreate(k)
    \/ \E k \in Slots : RecCommit(k)
    \/ \E k \in Slots : RemQuery(k)
    \/ \E k \in Slots : RemCommit(k)
    \/ AdvanceClock

SpecRules == InitRules /\ [][NextRules]_vars

\* The recurrence job against a user who edits the rule of t1, monthly and due.
InitUpdate ==
    /\ InitRest
    /\ tasks = ("t1" :> UserTask("t1", "u1")) @@ ("t2" :> UserTask("t2", "u2"))
    /\ rules = ("q1" :> NewRule("t1", "monthly", {}, 0))
    /\ reminders = EmptyFn
    /\ subs = EmptyFn

NextUpdate ==
    \/ LifespanStart
    \/ LifespanCatchupReminders
    \/ LifespanStartScheduler
    \/ TickRecurrence
    \/ \E k \in Slots : RecQuery(k)
    \/ \E k \in Slots : RecCreate(k)
    \/ \E k \in Slots : RecCommit(k)
    \/ \E k \in Slots : RemQuery(k)
    \/ \E k \in Slots : RemCommit(k)
    \/ AdvanceClock
    \/ \E t \in TaskIds, u \in Users, f \in FrequencyArgs, iv \in IntervalArgs,
          e \in EndDateArgs : UpdateRecurrence(t, u, f, iv, e)

SpecUpdate == InitUpdate /\ [][NextUpdate]_vars

\* Both jobs with two due rows each: t1 and t2 recur daily and have a due
\* reminder; their owner has one subscription.
InitRows ==
    /\ InitRest
    /\ tasks = [t \in TaskIds |-> UserTask(t, "u1")]
    /\ rules = ("q1" :> NewRule("t1", "daily", {}, 0)) @@ ("q2" :> NewRule("t2", "daily", {}, 0))
    /\ reminders = ("r1" :> NewReminder("t1", {}, {0}))
                        @@ ("r2" :> NewReminder("t2", {}, {0}))
    /\ subs = [s \in {"s1"} |-> [user_id |-> "u1"]]

NextRows ==
    \/ Engine
    \/ TickRecurrence
    \/ \E k \in Slots : RecCreate(k)

SpecRows == InitRows /\ [][NextRows]_vars

\* The recurrence job under fair scheduling: t1 recurs daily, without an end
\* or ending on day 0, and its rule is due.  The timer keeps firing and a
\* running sweep keeps taking its steps; the store is not unreachable for
\* ever and the processing of a rule does not raise for ever.  The calls of
\* _create_task_instance that raise after they added a task are as many as
\* leave an instance id for the call that succeeds.
InitFair ==
    /\ InitRest
    /\ tasks = ("t1" :> UserTask("t1", "u1"))
    /\ \E e \in {{}, {0}} : rules = ("q1" :> NewRule("t1", "daily", e, 0))
    /\ reminders = EmptyFn
    /\ subs = EmptyFn

RecCreateBounded(k) ==
    /\ RecCreate(k)
    /\ \/ rec'[k].failed = rec[k].failed
       \/ InstanceIds \ (DOMAIN tasks \cup DOMAIN rec'[k].added) # {}

RecQueryOk(k) == RecQuery(k) /\ rec'[k].pc = "loop"

RecCreateOk(k) == RecCreate(k) /\ rec'[k].failed = rec[k].failed

NextFair ==
    \/ LifespanStart
    \/ LifespanCatchupReminders
    \/ LifespanStartScheduler
    \/ TickRecurrence
    \/ \E k \in Slots : RecQuery(k)
    \/ \E k \in Slots : RecCreateBounded(k)
    \/ \E k \in Slots : RecCommit(k)
    \/ \E k \in Slots : RemQuery(k)
    \/ \E k \in Slots : RemCommit(k)
    \/ AdvanceClock

Fairness ==
    /\ WF_vars(LifespanStart)
    /\ WF_vars(LifespanCatchupReminders)
    /\ WF_vars(LifespanStartScheduler)
    /\ WF_vars(TickRecurrence)
    /\ \A k \in Slots :
          /\ WF_vars(RemQuery(k))
          /\ WF_vars(RemCommit(k))
          /\ WF_vars(RecCommit(k))
          /\ SF_vars(RecQueryOk(k))
          /\ SF_vars(RecCreateOk(k))

SpecFair == InitFair /\ [][NextFair]_vars /\ Fairness

\* A process that stops and starts again, under fair scheduling: t1 recurs
\* daily and has a reminder, both due; its owner has one subscription.  The
\* sweeps of the reminder job are the catch-up sweeps.
InitRestart ==
    /\ InitRest
    /\ tasks = ("t1" :> UserTask("t1", "u1"))
    /\ rules = ("q1" :> NewRule("t1", "daily", {}, 0))
    /\ reminders = ("r1" :> NewReminder("t1", {}, {0}))
    /\ subs = [s \in {"s1"} |-> [user_id |-> "u1"]]

NextRestart ==
    \/ LifespanStart
    \/ LifespanCatchupReminders
    \/ LifespanStartScheduler
    \/ TickRecurrence
    \/ \E k \in Slots : RecQuery(k)
    \/ \E k \in Slots : RecCreateBounded(k)
    \/ \E k \in Slots : RecCommit(k)
    \/ \E k \in Slots : RemQuery(k)
    \/ \E k \in Slots : RemLoad(k)
    \/ \E k \in Slots : RemSend(k)
    \/ \E k \in Slots : RemCommit(k)
    \/ Stop

SpecRestart ==
    /\ InitRestart
    /\ [][NextRestart]_vars
    /\ Fairness
    /\ \A k \in Slots : WF_vars(RemLoad(k)) /\ WF_vars(RemSend(k))

\* The driver with both jobs: task t2 recurs daily and its rule is due.
InitDriver ==
    /\ InitRest
    /\ InitStore
    /\ rules = [q \in {"q1"} |->
                  [task_id |-> "t2", frequency |-> "daily", interval |-> 1,
                   days_of_week |-> {}, day_of_month |-> {}, end_date |-> {},
                   next_occurrence |-> 0]]

NextDriver ==
    \/ Engine
    \/ TickRecurrence
    \/ \E k \in Slots : RecCreate(k)
    \/ Stop

SpecDriver == InitDriver /\ [][NextDriver]_vars

\* ------------------------------------------------------------------ claims
\* The owner of reminder r's task has a subscription in the store.
HasRecipients(r) ==
    /\ reminders[r].task_id \in DOMAIN tasks
    /\ \E s \in DOMAIN subs : subs[s].user_id = tasks[reminders[r].task_id].user_id

\* The outcomes of the webpush() calls session p made for reminder r.
OutcomesOf(p, r) == {x[3] : x \in {y \in p.tried : y[1] = r}}

\* C1: reminder sweeps that follow one another without a stop of the process
\* and without a set_due_date deliver a due reminder at most once to each
\* subscription, and a later sweep's query does not select a reminder an
\* earlier sweep's query selected.
C1_Idempotent ==
    stops = 0 => (duplicated = {} /\ reselected = {})

\* C2: at most one invocation of check_reminders and at most one of
\* check_recurrence runs at any time, and a tick of a job that fires while an
\* invocation of that job runs starts no invocation.
C2_NoOverlap ==
    /\ [](Cardinality(Running) <= 1 /\ Cardinality(RunningRec) <= 1)
    /\ [][/\ (TickReminders /\ Running # {}) => (Running' = Running /\ sweeps' = sweeps)
          /\ (TickRecurrence /\ RunningRec # {}) => RunningRec' = RunningRec]_vars

\* Scenario D: a tick of the reminder job fired while the invocation of the
\* previous tick was sending, and was skipped.
C2_Witness ==
    \E k \in Slots :
        /\ rem[k].kind = "tick"
        /\ rem[k].pc = "send"
        /\ rem[k].missed
        /\ Cardinality(Running) = 1

\* C3: an invocation started by a timer runs only once lifespan() is serving,
\* and lifespan() is serving only after the catch-up call of check_recurrence
\* and then the catch-up call of check_reminders have returned; a catch-up
\* sweep that could query the store has processed every rule, respectively
\* every reminder, that was due when the process started.
C3_CatchupFirst ==
    /\ (\E k \in Slots : rem[k].kind = "tick" \/ rec[k].kind = "tick") => phase = "serving"
    /\ phase = "catchup_reminders" => catchup.rules \in {"ok", "failed"}
    /\ phase = "serving" =>
          /\ catchup.rules \in {"ok", "failed"}
          /\ catchup.reminders \in {"ok", "failed"}
          /\ catchup.rules = "ok" => catchup.dueRules \subseteq catchup.doneRules
          /\ catchup.reminders = "ok" => catchup.dueReminders \subseteq catchup.doneReminders

\* The process was stopped with rule q1 and reminder r1 due; after the
\* restart both were processed by the catch-up and no tick has fired yet.
C3_Witness ==
    /\ stops = 1
    /\ phase = "serving"
    /\ catchup.dueRules = {"q1"}
    /\ catchup.dueReminders = {"r1"}
    /\ catchup.rules = "ok"
    /\ catchup.reminders = "ok"
    /\ "q1" \in catchup.doneRules
    /\ "r1" \in catchup.doneReminders
    /\ \A k \in Slots : rem[k].kind = "none" /\ rec[k].kind = "none"

\* C4: a commit makes notification_sent = true durable for a reminder whose
\* task exists and whose owner has subscriptions only if the committing sweep
\* called webpush() for that reminder; and when the process stops, every
\* reminder a running sweep called webpush() for is still unsent and due in
\* the store, so that the next sweep's query selects it.
C4_SendBeforeMark ==
    [][/\ \A k \in Slots : RemCommit(k) =>
             \A r \in DOMAIN reminders :
                 (/\ ~reminders[r].notification_sent
                  /\ reminders'[r].notification_sent
                  /\ HasRecipients(r)) => OutcomesOf(rem[k], r) # {}
       /\ Stop =>
             /\ reminders' = reminders
             /\ \A k \in Slots : \A x \in rem[k].tried :
                    /\ ~reminders'[x[1]].notification_sent
                    /\ IsDue(reminders'[x[1]], now)]_vars

\* The process stopped after r1 was delivered to both subscriptions and
\* before the sweep's commit: r1 is still unsent and due in the store.
C4_Witness ==
    /\ stops = 1
    /\ sweeps = 1
    /\ phase = "stopped"
    /\ {<<"r1", "s1">>, <<"r1", "s2">>} \subseteq notified
    /\ ~reminders["r1"].notification_sent
    /\ "r1" \in DueReminders(now)

\* C5: a subscription row leaves the store only at the commit of a sweep
\* whose webpush() call for that very subscription returned 410, and that
\* commit deletes every subscription for which the sweep got a 410.
C5_DeleteOnlyOn410 ==
    [][/\ \A s \in DOMAIN subs \ DOMAIN subs' :
             \E k \in Slots : RemCommit(k) /\ \E x \in rem[k].tried : x[2] = s /\ x[3] = "gone"
       /\ \A k \in Slots : RemCommit(k) =>
             \A x \in rem[k].tried : x[3] = "gone" => x[2] \notin DOMAIN subs']_vars

\* A sweep got a 410 from s1 and delivered to s2: s1 is deleted, s2 is kept.
C5_Witness ==
    /\ "s1" \in goneSubs
    /\ "s1" \notin DOMAIN subs
    /\ "s2" \notin goneSubs
    /\ "s2" \in DOMAIN subs
    /\ <<"r1", "s2">> \in notified

\* C6: whenever _send_reminder has returned for a due reminder whose owner
\* has subscriptions, webpush() was called for every one of those
\* subscriptions and the session holds notification_sent = true for the
\* reminder, whatever the calls' outcomes.
C6_AllAttemptedThenMarked ==
    \A k \in Slots :
        rem[k].pc = "loop" =>
            \A r \in rem[k].sel \ rem[k].due :
                HasRecipients(r) =>
                    /\ r \in rem[k].dirty
                    /\ \A s \in SubscriptionsOf(tasks[reminders[r].task_id].user_id, rem[k]) :
                           \E o \in Outcomes : <<r, s, o>> \in rem[k].tried

C8_NeverAgainAfter410 ==
    stops = 0 => recalled = {}

\* C9: for each value of a reminder's reminder_time, no commit flips
\* notification_sent to true a second time and no subscription is delivered
\* to a second time.
C9_OncePerValue ==
    remarked = {} /\ duplicated = {}

\* C10: a set_due_date call that succeeds on a task with a reminder replaces
\* reminder_time and resets notification_sent when it supplies a
\* reminder_time, and leaves both as they are when it supplies a due_date
\* only.
C10_UpdateExisting ==
    [][edits' # edits =>
          \A t \in TaskIds, u \in Users, due \in DueArgs, rt \in OptTimes :
              (SetDueDate(t, u, due, rt) /\ ExistingReminder(t) # {}) =>
                  \A r \in ExistingReminder(t) :
                      IF rt # {}
                      THEN /\ reminders'[r].reminder_time = rt
                           /\ reminders'[r].notification_sent = FALSE
                      ELSE /\ reminders'[r].reminder_time = reminders[r].reminder_time
                           /\ reminders'[r].notification_sent = reminders[r].notification_sent]_vars

\* A set_due_date call supplied a reminder_time for the reminder of t1, which
\* was marked sent: the reminder is unsent again.
C10_Witness ==
    /\ lastEdit = [kind |-> "updated", withRt |-> TRUE, wasSent |-> TRUE]
    /\ ~reminders["r1"].notification_sent
    /\ reminders["r1"].reminder_time # {}

\* C11: the query of a sweep running at time now selects exactly the
\* reminders with reminder_time <= now, notification_sent = false and
\* snooze_until null or <= now; the sweep processes every reminder it
\* selected, and it neither sends for nor changes any other reminder.
C11_DuePredicate ==
    /\ [](\A k \in Slots :
            /\ rem[k].dirty \subseteq rem[k].sel
            /\ \A x \in rem[k].tried : x[1] \in rem[k].sel)
    /\ [][/\ \A k \in Slots : (RemQuery(k) /\ rem'[k].pc = "loop") =>
                rem'[k].sel =
                    {r \in DOMAIN reminders :
                        /\ reminders[r].reminder_time # {}
                        /\ \A x \in reminders[r].reminder_time : x <= now
                        /\ ~reminders[r].notification_sent
                        /\ \A x \in reminders[r].snooze_until : x <= now}
          /\ \A k \in Slots : RemCommit(k) =>
                /\ \A r \in rem[k].sel : r \in rem[k].dirty \/ OutcomesOf(rem[k], r) # {}
                /\ \A r \in DOMAIN reminders \ rem[k].sel : reminders'[r] = reminders[r]
          /\ reminders' # reminders => \E k \in Slots : RemCommit(k)]_vars

\* A sweep at time 0 selected the reminder of t2 and not the reminder of t1,
\* whose reminder_time has passed and which is snoozed until time MaxTime.
C11_Witness ==
    /\ now = 0
    /\ reminders["r1"].reminder_time = {0}
    /\ ~reminders["r1"].notification_sent
    /\ reminders["r1"].snooze_until = {MaxTime}
    /\ \E k \in Slots :
          /\ rem[k].pc = "loop"
          /\ rem[k].sel = {"r2"}
          /\ "r2" \in rem[k].dirty

\* C12: when the sweep comes to a due reminder whose task is missing, or whose
\* task's owner has no push subscription, it marks the reminder sent in its
\* session and goes on to the next one without a call of webpush(); once the
\* sweep's commit has gone through, every reminder it marked that is still
\* stored has notification_sent = true and is due at no time.
C12_Consumed ==
    /\ [](\A k \in Slots : rem[k].pc = "send" =>
            /\ rem[k].todo # {}
            /\ rem[k].cur \notin rem[k].dirty)
    /\ [][/\ \A k \in Slots : RemLoad(k) =>
                \A r \in rem[k].due \ rem'[k].due :
                    LET t == rem[k].task_of[r]
                    IN  (\/ t \notin DOMAIN tasks
                         \/ {s \in DOMAIN subs : subs[s].user_id = tasks[t].user_id} = {})
                        => /\ rem'[k].pc = "loop"
                           /\ r \in rem'[k].dirty
                           /\ rem'[k].tried = rem[k].tried
                           /\ notified' = notified
          /\ \A k \in Slots : (RemCommit(k) /\ RemCommitted(k)) =>
                \A r \in rem[k].dirty \cap DOMAIN reminders' :
                    /\ reminders'[r].notification_sent
                    /\ \A t \in Times : ~IsDue(reminders'[r], t)]_vars

\* A sweep is about to commit: it marked the reminder of t1, deleted after the
\* query, and the reminder of t2, whose owner has no subscription, and it
\* called webpush() for neither.
C12_Witness ==
    /\ "t1" \notin DOMAIN tasks
    /\ "t2" \in DOMAIN tasks
    /\ \E k \in Slots :
          /\ rem[k].pc = "loop"
          /\ rem[k].due = {}
          /\ rem[k].dirty = {"r1", "r2"}
          /\ rem[k].tried = {}

\* What the calculator returns for the stored rule q at time t.
NextFor(q, t) ==
    calculate_next_occurrence(rules[q].frequency, rules[q].interval, t, rules[q].end_date,
                              rules[q].days_of_week, rules[q].day_of_month)

\* C13: every stored rule has a next_occurrence; at the commit of a recurrence
\* sweep run at time t, every rule the sweep selected and processed without an
\* exception, and whose template exists, gets exactly the calculator's
\* timestamp for t as its next_occurrence (nothing else of it changes) if the
\* calculator returns one and is deleted if the calculator returns None; no
\* other rule is changed or deleted.
C13_AdvanceOrRetire ==
    /\ [](\A q \in DOMAIN rules : rules[q].next_occurrence \in Nat)
    /\ [][\A k \in Slots : (RecCommit(k) /\ RecCommitted(k)) =>
            \A q \in DOMAIN rules :
                IF q \in rec[k].sel \ rec[k].failed /\ rules[q].task_id \in DOMAIN tasks
                THEN IF NextFor(q, rec[k].now) # {}
                     THEN /\ q \in DOMAIN rules'
                          /\ NextFor(q, rec[k].now) = {rules'[q].next_occurrence}
                          /\ rules'[q] = [rules[q] EXCEPT !.next_occurrence =
                                                           rules'[q].next_occurrence]
                     ELSE q \notin DOMAIN rules'
                ELSE /\ q \in DOMAIN rules'
                     /\ rules'[q] = rules[q]]_vars

\* A sweep at time 0 has retired the rule of t1, whose end date is day 0, and
\* moved the daily rule of t2 to the next day.
C13_Witness ==
    /\ "q1" \notin DOMAIN rules
    /\ "q2" \in DOMAIN rules
    /\ rules["q2"].next_occurrence = 24
    /\ \A k \in Slots : rec[k].pc = "idle"

\* The step of session k, from this state to the next, processed rule q
\* without an exception, the template of q exists and the calculator returns
\* None for q at the sweep's now.
ExhaustionStep(k, q) ==
    /\ rec[k].pc = "loop"
    /\ rec'[k].pc = "loop"
    /\ q \in DOMAIN rec[k].due \ DOMAIN rec'[k].due
    /\ q \notin rec'[k].failed
    /\ rec[k].due[q].task_id \in DOMAIN tasks
    /\ calculate_next_occurrence(rec[k].due[q].frequency, rec[k].due[q].interval,
                                 rec[k].now, rec[k].due[q].end_date,
                                 rec[k].due[q].days_of_week, rec[k].due[q].day_of_month) = {}

C15_NeverDecreases ==
    [][\A q \in DOMAIN rules \cap DOMAIN rules' :
            rules'[q].next_occurrence >= rules[q].next_occurrence]_vars

\* The monthly rule of t1, moved a month ahead by a sweep, has been made daily
\* by its owner and is due the next day.
C15_Witness ==
    /\ "q1" \in DOMAIN rules
    /\ rules["q1"].frequency = "daily"
    /\ rules["q1"].next_occurrence < 744
    /\ \E n \in InstanceIds : n \in DOMAIN tasks

\* C16: every task a recurrence sweep run at time t inserts is pending, has the
\* title, description, priority, category and owner of the template of a rule
\* the sweep selected, and has created_at = updated_at = t, whatever the status
\* of the template; the sweep changes no existing task, and only the commit
\* of a recurrence sweep inserts tasks.
C16_InstanceFields ==
    [][/\ \A k \in Slots : (RecCommit(k) /\ RecCommitted(k)) =>
            /\ \A n \in DOMAIN tasks : n \in DOMAIN tasks' /\ tasks'[n] = tasks[n]
            /\ \A n \in DOMAIN tasks' \ DOMAIN tasks :
                  \E q \in rec[k].sel :
                      /\ q \in DOMAIN rules
                      /\ rules[q].task_id \in DOMAIN tasks
                      /\ LET original == tasks[rules[q].task_id]
                         IN  /\ tasks'[n].status = "pending"
                             /\ tasks'[n].title = original.title
                             /\ tasks'[n].description = original.description
                             /\ tasks'[n].priority = original.priority
                             /\ tasks'[n].category_id = original.category_id
                             /\ tasks'[n].user_id = original.user_id
                             /\ tasks'[n].created_at = rec[k].now
                             /\ tasks'[n].updated_at = rec[k].now
       /\ tasks' # tasks => \E k \in Slots : rec[k].pc = "loop" /\ rec'[k].pc = "idle"]_vars

\* A pending instance of the complete template t1 is stored.
C16_Witness ==
    /\ tasks["t1"].status = "complete"
    /\ \E n \in InstanceIds \cap DOMAIN tasks :
          /\ tasks[n].title = "t1"
          /\ tasks[n].status = "pending"
          /\ tasks[n].priority = "High"
          /\ tasks[n].user_id = "u2"

DueRule(q) == q \in DOMAIN rules /\ rules[q].next_occurrence <= now

C20_SweepFailure ==
    /\ [](/\ ((phase = "catchup_recurrence" /\ catchup.rules = "failed")
                => (ENABLED LifespanCatchupReminders))
           /\ ((phase = "catchup_reminders" /\ catchup.reminders = "failed")
                => (ENABLED LifespanStartScheduler)))
    /\ [][/\ \A k \in Slots :
                /\ (rec[k].pc = "query" /\ rec'[k].pc = "idle") =>
                      /\ store' = store
                      /\ notified' = notified
                      /\ rec'[k] = IdleRec
                      /\ phase' = phase
                      /\ rec[k].kind = "catchup" => catchup'.rules = "failed"
                /\ (rem[k].pc = "query" /\ rem'[k].pc = "idle") =>
                      /\ store' = store
                      /\ notified' = notified
                      /\ rem'[k] = IdleRem
                      /\ phase' = phase
                      /\ rem[k].kind = "catchup" => catchup'.reminders = "failed"
                /\ (rec[k].pc = "query" /\ rec'[k].pc = "loop") =>
                      /\ rec'[k].sel = DueRules(now)
                      /\ rec'[k].added = EmptyFn
                      /\ rec'[k].moved = EmptyFn
                      /\ rec'[k].removed = {}
                /\ (rem[k].pc = "query" /\ rem'[k].pc = "loop") =>
                      /\ rem'[k].sel = DueReminders(now)
                      /\ rem'[k].dirty = {}
                      /\ rem'[k].deleted = {}
                      /\ rem'[k].tried = {}
          /\ (phase = "serving" /\ phase' = "serving" /\ RunningRec = {} /\ rec' # rec)
                => \E k \in Slots : rec'[k].pc = "query" /\ rec'[k].kind = "tick"
          /\ (phase = "serving" /\ phase' = "serving" /\ Running = {} /\ rem' # rem)
                => \E k \in Slots : rem'[k].pc = "query" /\ rem'[k].kind = "tick"]_vars

\* Both catch-up sweeps failed to query the store; the process is serving all
\* the same, and sweeps started by later ticks have moved the rule of t1 and
\* marked the reminder of t1.
C20_Witness ==
    /\ phase = "serving"
    /\ catchup.rules = "failed"
    /\ catchup.reminders = "failed"
    /\ rules["q1"].next_occurrence > now
    /\ reminders["r1"].notification_sent

\* --------------------------------------------------- calculator, applied
\* datetime(y, m, d, h, tzinfo=timezone.utc)
At(y, m, d, h) == DaysFromCivil(y, m, d) * 24 + h

\* The times create_recurrence is called at: ends of months in a common and in
\* a leap year, the 29th of February before a leap year and before 2100, the
\* last day of a common February, a day in December, the last hour of a leap
\* year and the first of 1970.
CalcTimes ==
    {At(2026, 1, 31, 9), At(2028, 1, 31, 9), At(2028, 2, 29, 23), At(2096, 2, 29, 6),
     At(2027, 2, 28, 12), At(2026, 12, 15, 0), At(2026, 3, 31, 9), At(2024, 12, 31, 23),
     At(1970, 1, 1, 0)}

\* End dates as days after the day of the call.
EndDateOffsets == {0, 1, 7, 28, 31, 365, 366}
CreateEndDateArgs(t) == {{}} \cup {{DateOf(t) + k} : k \in EndDateOffsets}

\* The owner of a task calls create_recurrence once, at one of CalcTimes and
\* with every combination of the arguments, and removes the rule it made.
InitCalc ==
    /\ now \in CalcTimes
    /\ InitIdle
    /\ tasks = ("t1" :> UserTask("t1", "u1"))
    /\ rules = EmptyFn
    /\ reminders = EmptyFn
    /\ subs = EmptyFn

CalcCreate ==
    /\ lastEdit = NoEdit
    /\ \E f \in CreateFrequencyArgs, iv \in CreateIntervalArgs, dow \in DaysOfWeekArgs,
          dom \in DayOfMonthArgs, e \in CreateEndDateArgs(now) :
          CreateRecurrence("t1", "u1", f, iv, dow, dom, e)

CalcRemove == RemoveRecurrence("t1", "u1")

NextCalc ==
    \/ CalcCreate
    \/ CalcRemove

SpecCalc == InitCalc /\ [][NextCalc]_vars

\* C21: for a daily rule the calculator's result is current plus exactly
\* interval days and for a weekly rule current plus exactly interval weeks,
\* with the time of day of current, for every current, every interval >= 1 and
\* whatever days_of_week and day_of_month are; a result is missing only where
\* an end date is given.
C21_DailyWeeklyDelta ==
    (/\ lastEdit.kind = "create_recurrence"
     /\ lastEdit.frequency \in {"daily", "weekly"}
     /\ lastEdit.interval >= 1)
        => /\ \A x \in lastEdit.result :
                /\ x - lastEdit.current =
                      lastEdit.interval * (IF lastEdit.frequency = "daily" THEN 24 ELSE 168)
                /\ TimeOfDay(x) = TimeOfDay(lastEdit.current)
           /\ lastEdit.end_date = {} => lastEdit.result # {}

\* A weekly rule of every fourth week was calculated from 2026-01-31T09:00Z
\* with a list of weekdays and a day of the month: 2026-02-28T09:00Z.
C21_Witness ==
    /\ lastEdit.kind = "create_recurrence"
    /\ lastEdit.frequency = "weekly"
    /\ lastEdit.interval = 4
    /\ lastEdit.current = At(2026, 1, 31, 9)
    /\ lastEdit.days_of_week # {}
    /\ lastEdit.day_of_month = {31}
    /\ lastEdit.result = {At(2026, 2, 28, 9)}
    /\ \E q \in DOMAIN rules : rules[q].next_occurrence = At(2026, 2, 28, 9)

\* C22: for a monthly rule the calculator's result lies interval calendar
\* months after current's month, the year carrying over December; its day is
\* day_of_month when that is given and current's day otherwise, or the last
\* day of the resulting month when that month is shorter; its time of day is
\* current's; for every current, every interval >= 1 and every day_of_month
\* in 1..31.  A result is missing only where an end date is given.
C22_MonthlyClamp ==
    (/\ lastEdit.kind = "create_recurrence"
     /\ lastEdit.frequency = "monthly"
     /\ lastEdit.interval >= 1)
        => /\ \A x \in lastEdit.result :
                LET c == CivilFromDays(DateOf(lastEdit.current))
                    r == CivilFromDays(DateOf(x))
                    target == IF lastEdit.day_of_month # {}
                              THEN The(lastEdit.day_of_month) ELSE c.day
                IN  /\ r.year * 12 + r.month = c.year * 12 + c.month + lastEdit.interval
                    /\ r.month \in 1..12
                    /\ r.day = Min(target, DaysInMonth(r.year, r.month))
                    /\ TimeOfDay(x) = TimeOfDay(lastEdit.current)
           /\ lastEdit.end_date = {} => lastEdit.result # {}

\* The rule of every month asked for at 2026-01-31T09:00Z (hour 491625) with
\* no day of the month has 2026-02-28T09:00Z (hour 492297) for its first
\* occurrence.
C22_Witness ==
    /\ lastEdit.kind = "create_recurrence"
    /\ lastEdit.frequency = "monthly"
    /\ lastEdit.interval = 1
    /\ lastEdit.day_of_month = {}
    /\ lastEdit.current = 491625
    /\ lastEdit.current = At(2026, 1, 31, 9)
    /\ lastEdit.result = {492297}
    /\ \E q \in DOMAIN rules : rules[q].next_occurrence = At(2026, 2, 28, 9)

\* C23: for a yearly rule the calculator's result has current's year plus
\* interval, current's month, and current's day, except that the 29th of
\* February becomes the 28th in a year that is not a leap year; its time of day
\* is current's; for every current and every interval >= 1.  A result is
\* missing only where an end date is given.
C23_YearlyLeapClamp ==
    (/\ lastEdit.kind = "create_recurrence"
     /\ lastEdit.frequency = "yearly"
     /\ lastEdit.interval >= 1)
        => /\ \A x \in lastEdit.result :
                LET c == CivilFromDays(DateOf(lastEdit.current))
                    r == CivilFromDays(DateOf(x))
                IN  /\ r.year = c.year + lastEdit.interval
                    /\ r.month = c.month
                    /\ r.day = IF c.month = 2 /\ c.day = 29 /\ ~IsLeap(r.year)
                               THEN 28 ELSE c.day
                    /\ TimeOfDay(x) = TimeOfDay(lastEdit.current)
           /\ lastEdit.end_date = {} => lastEdit.result # {}

\* The rule of every fourth year asked for at 2096-02-29T06:00Z has
\* 2100-02-28T06:00Z (hour 1140966) for its first occurrence: 2100 is not a leap
\* year.
C23_Witness ==
    /\ lastEdit.kind = "create_recurrence"
    /\ lastEdit.frequency = "yearly"
    /\ lastEdit.interval = 4
    /\ lastEdit.current = At(2096, 2, 29, 6)
    /\ lastEdit.result = {1140966}
    /\ \E q \in DOMAIN rules : rules[q].next_occurrence = At(2100, 2, 28, 6)

\* C24: for each of the four frequencies and every current and interval the
\* calculator returns None exactly when an end date is given and the UTC date
\* of the occurrence computed without it is after the end date; otherwise it
\* returns that occurrence, one that falls on the end date included; for a
\* daily or weekly rule that occurrence is current plus interval days or
\* weeks.
C24_NullIffPastEnd ==
    (/\ lastEdit.kind = "create_recurrence"
     /\ lastEdit.frequency \in Frequencies)
        => LET free == calculate_next_occurrence(lastEdit.frequency, lastEdit.interval,
                           lastEdit.current, {}, lastEdit.days_of_week,
                           lastEdit.day_of_month)
           IN  /\ free # {}
               /\ lastEdit.frequency = "daily" =>
                      free = {lastEdit.current + lastEdit.interval * 24}
               /\ lastEdit.frequency = "weekly" =>
                      free = {lastEdit.current + lastEdit.interval * 168}
               /\ lastEdit.result = {} <=>
                      (\E e \in lastEdit.end_date : DateOf(The(free)) > e)
               /\ lastEdit.result # {} => lastEdit.result = free
               /\ lastEdit.end_date = {} => lastEdit.result = free

\* A weekly rule asked for at 2028-02-29T23:00Z with an end date of 2028-03-01:
\* the occurrence of 2028-03-07 is after it, the calculator returned None and
\* no rule was stored.
C24_Witness ==
    /\ lastEdit.kind = "create_recurrence"
    /\ lastEdit.frequency = "weekly"
    /\ lastEdit.interval = 1
    /\ lastEdit.current = At(2028, 2, 29, 23)
    /\ lastEdit.end_date = {DaysFromCivil(2028, 3, 1)}
    /\ lastEdit.result = {}
    /\ ~lastEdit.stored
    /\ rules = EmptyFn

\* ------------------------------------------------ tools and sweeps together
\* Two sessions call the tools while the catch-up sweeps of both jobs run: t1
\* recurs daily and has a reminder, both due; t2 has neither; their owner has
\* no subscription, so that the reminder sweep sends nothing.
InitCalls ==
    /\ InitRest
    /\ tasks = [t \in TaskIds |-> UserTask(t, "u1")]
    /\ rules = ("q1" :> NewRule("t1", "daily", {}, 0))
    /\ reminders = ("r1" :> NewReminder("t1", {}, {0}))
    /\ subs = EmptyFn

NextCalls ==
    \/ LifespanStart
    \/ LifespanCatchupReminders
    \/ LifespanStartScheduler
    \/ \E k \in Slots : RecQuery(k)
    \/ \E k \in Slots : RecCreate(k)
    \/ \E k \in Slots : RecCommit(k)
    \/ \E k \in Slots : RemQuery(k)
    \/ \E k \in Slots : RemLoad(k)
    \/ \E k \in Slots : RemCommit(k)
    \/ \E c \in Callers, t \in TaskIds :
          CreateRecurrenceSelect(c, t, "u1", "daily", 1, {}, {}, {})
    \/ \E c \in Callers : CreateRecurrenceCommit(c)
    \/ \E c \in Callers : SetDueDateSelect(c, "t2", "u1", {}, {0})
    \/ \E c \in Callers : SetDueDateCommit(c)
    \/ \E t \in TaskIds : UpdateRecurrence(t, "u1", {"monthly"}, {}, {})
    \/ \E t \in TaskIds : RemoveRecurrence(t, "u1")

SpecCalls == InitCalls /\ [][NextCalls]_vars

\* C25: a task never has more than one recurrence rule nor more than one
\* reminder row, however the calls of create_recurrence, update_recurrence,
\* remove_recurrence and set_due_date and the sweeps of both jobs interleave;
\* of two calls that both found no row and both insert one, the second to
\* commit is refused.
C25_OneRowPerTask ==
    /\ [](\A t \in TaskIds :
            /\ Cardinality(RuleOf(t)) <= 1
            /\ Cardinality(ExistingReminder(t)) <= 1)
    /\ [][\A c \in Callers :
             /\ (calls[c].pc = "insert_rule" /\ calls'[c].pc = "idle"
                    /\ RuleOf(calls[c].row.task_id) # {})
                   => (rules' = rules /\ calls'[c].outcome = "integrity_error")
             /\ (calls[c].pc = "insert_reminder" /\ calls'[c].pc = "idle"
                    /\ ExistingReminder(calls[c].row.task_id) # {})
                   => (reminders' = reminders /\ calls'[c].outcome = "integrity_error")]_vars

\* Two create_recurrence calls for t2 both found no rule; the first to commit
\* stored its row and the second was refused, while the catch-up sweep of the
\* recurrence job was between its query and its commit.
C25_Witness ==
    /\ calls["c1"] = [pc |-> "idle", outcome |-> "integrity_error"]
    /\ calls["c2"] = [pc |-> "idle", outcome |-> "committed"]
    /\ Cardinality(RuleOf("t2")) = 1
    /\ ExistingReminder("t2") = {}
    /\ \E k \in Slots : rec[k].pc = "loop"

\* ------------------------------------------------- the scheduler's grace
\* Values of SCHEDULER_RECURRENCE_INTERVAL_MINUTES and of
\* SCHEDULER_REMINDER_INTERVAL_SECONDS: the defaults, shorter ones, and ones
\* no scheduler accepts.
RecurrenceIntervalEnv == {-1, 0, 1, 2, 5}
ReminderIntervalEnv == {-1, 0, 1, 30, 60}

\* A process configured with any of these intervals, started, ticked late and
\* stopped; task t1 has no rule and no reminder.
InitSched ==
    /\ now = 0
    /\ \E r \in RecurrenceIntervalEnv, s \in ReminderIntervalEnv :
          sched = Unscheduled([recurrence |-> r, reminder |-> s])
    /\ InitProcess
    /\ tasks = ("t1" :> UserTask("t1", "u1"))
    /\ rules = EmptyFn
    /\ reminders = EmptyFn
    /\ subs = EmptyFn

NextSched ==
    \/ LifespanStart
    \/ LifespanCatchupReminders
    \/ LifespanStartScheduler
    \/ \E w \in Lateness : TickRecurrenceLate(w)
    \/ \E w \in Lateness : TickRemindersLate(w)
    \/ \E k \in Slots : RecQuery(k)
    \/ \E k \in Slots : RecCommit(k)
    \/ \E k \in Slots : RemQuery(k)
    \/ \E k \in Slots : RemCommit(k)
    \/ Stop

SpecSched == InitSched /\ [][NextSched]_vars

\* C26: for both jobs and every configured interval the scheduler starts
\* with, the misfire grace time given to add_job is at least one interval of
\* the job, and no run time the scheduler gets to at most one interval late
\* is skipped as a misfire.
C26_GraceCoversInterval ==
    /\ \A j \in DOMAIN sched.jobs :
          /\ sched.jobs[j].interval >= 1
          /\ sched.jobs[j].misfire_grace_time >= sched.jobs[j].interval
          /\ \A d \in 0..sched.jobs[j].interval : ~Misfires(j, d)
    /\ \A x \in sched.misfired :
          \/ x[1] = "check_recurrence" /\ x[2] > sched.env.recurrence * 60
          \/ x[1] = "check_reminders" /\ x[2] > sched.env.reminder

\* With the default intervals: a run time of each job the scheduler got to a
\* whole interval late (300 s, 60 s) was not skipped, the run of
\* check_recurrence it got to 301 s late was, and a sweep a late tick
\* submitted is running.
C26_Witness ==
    /\ sched.env = DefaultEnv
    /\ <<"check_recurrence", 300>> \in sched.late
    /\ <<"check_reminders", 60>> \in sched.late
    /\ <<"check_recurrence", 301>> \in sched.misfired
    /\ \E k \in Slots : rec[k].pc = "query" /\ rec[k].kind = "tick"

\* C27: every stored reminder row has a due_date or a reminder_time, after
\* any sequence of set_due_date calls and reminder sweeps, and no call of
\* set_due_date with neither argument can change the table.
C27_HasADate ==
    /\ \A r \in DOMAIN reminders :
          reminders[r].due_date # {} \/ reminders[r].reminder_time # {}
    /\ \A t \in TaskIds, u \in Users :
          ~ENABLED (SetDueDate(t, u, {}, {}) /\ reminders' # reminders)

\* A row created with a reminder_time only was swept and marked; a second row
\* was created by a call with a due_date only.
C27_Witness ==
    /\ lastEdit.kind = "created"
    /\ ~lastEdit.withRt
    /\ \E r \in DOMAIN reminders :
          /\ reminders[r].due_date = {}
          /\ reminders[r].notification_sent
    /\ \E r \in DOMAIN reminders :
          /\ reminders[r].reminder_time = {}
          /\ reminders[r].due_date # {}

\* C28: the two jobs do not interfere.  A step of a recurrence sweep changes
\* no reminder, no subscription, no notification sent and nothing a reminder
\* sweep holds, and leaves every task row that exists as it is; a step of a
\* reminder sweep changes no task, no rule and nothing a recurrence sweep
\* holds; the task rows a recurrence sweep adds are the tasks of no reminder
\* and of no rule.  The steps of the two sweeps therefore commute, and running
\* them interleaved gives the store and the notifications of running them
\* one after the other, in either order.
C28_Independent ==
    /\ [](\A n \in InstanceIds \cap DOMAIN tasks :
              /\ ExistingReminder(n) = {}
              /\ RuleOf(n) = {})
    /\ [][/\ (\E k \in Slots : rec'[k] # rec[k] /\ rec[k].pc \in {"query", "loop"})
              => /\ UNCHANGED <<reminders, subs, rem, perValue, goneSubs, recalled>>
                 /\ \A t \in DOMAIN tasks : t \in DOMAIN tasks' /\ tasks'[t] = tasks[t]
          /\ (\E k \in Slots : rem'[k] # rem[k] /\ rem[k].pc \in {"query", "loop", "send"})
              => UNCHANGED <<tasks, rules, rec>>]_vars

\* A recurrence sweep that has created the instance of one of its two rules
\* and a reminder sweep that is sending the first of its two reminders are
\* running at the same time.
C28_Witness ==
    /\ \E k \in Slots :
          /\ rec[k].pc = "loop"
          /\ rec[k].kind = "tick"
          /\ Cardinality(DOMAIN rec[k].added) = 1
          /\ Cardinality(DOMAIN rec[k].due) = 1
    /\ \E k \in Slots :
          /\ rem[k].pc = "send"
          /\ rem[k].kind = "tick"
          /\ rem[k].due # {}

\* ------------------------------------------- templates deleted under a sweep
\* t1 and t2 recur daily and both rules are due; their owner deletes tasks
\* while the recurrence job sweeps.  There is no reminder and no subscription.
InitOrphan ==
    /\ InitRest
    /\ tasks = [t \in TaskIds |-> UserTask(t, "u1")]
    /\ rules = ("q1" :> NewRule("t1", "daily", {}, 0)) @@ ("q2" :> NewRule("t2", "daily", {}, 0))
    /\ reminders = EmptyFn
    /\ subs = EmptyFn

NextOrphan ==
    \/ LifespanStart
    \/ LifespanCatchupReminders
    \/ LifespanStartScheduler
    \/ TickRecurrence
    \/ \E k \in Slots : RecQuery(k)
    \/ \E k \in Slots : RecCreate(k)
    \/ \E k \in Slots : RecCommit(k)
    \/ \E k \in Slots : RemQuery(k)
    \/ \E k \in Slots : RemCommit(k)
    \/ \E t \in TaskIds, u \in Users : DeleteTask(t, u)

SpecOrphan == InitOrphan /\ [][NextOrphan]_vars

\* The rules a running sweep took from its list without an exception and
\* without a pending write: those whose template task was missing.
Skipped(p) == (p.sel \ DOMAIN p.due) \ (p.failed \cup DOMAIN p.moved \cup p.removed)

\* C29: when the SELECT of a due rule's template task returns no row, the
\* sweep adds no task, writes nothing to the rule (neither a new
\* next_occurrence nor a delete) and goes on with the rules that are left; its
\* commit leaves a rule it skipped as it is.
C29_MissingTemplateSkipped ==
    [][\A k \in Slots :
          /\ (rec[k].pc = "loop" /\ rec'[k].pc = "loop")
                => \A q \in DOMAIN rec[k].due \ DOMAIN rec'[k].due :
                      (rec[k].due[q].task_id \notin DOMAIN tasks /\ q \notin rec'[k].failed)
                         => /\ rec'[k].added = rec[k].added
                            /\ rec'[k].moved = rec[k].moved
                            /\ rec'[k].removed = rec[k].removed
                            /\ rec'[k].failed = rec[k].failed
                            /\ rec'[k].due = Restrict(rec[k].due, DOMAIN rec[k].due \ {q})
                            /\ UNCHANGED store
          /\ (rec[k].pc = "loop" /\ rec'[k].pc = "idle")
                => /\ \A q \in Skipped(rec[k]) \cap DOMAIN rules :
                         q \in DOMAIN rules' /\ rules'[q] = rules[q]
                   /\ DOMAIN tasks' \ DOMAIN tasks \subseteq DOMAIN rec[k].added]_vars

\* The template of q1 was deleted after the sweep's query: the sweep skipped
\* q1 and went on to q2, whose instance it created.
C29_Witness ==
    \E k \in Slots :
        /\ rec[k].pc = "loop"
        /\ "q1" \in Skipped(rec[k])
        /\ "t1" \notin DOMAIN tasks
        /\ DOMAIN rec[k].moved = {"q2"}
        /\ Cardinality(DOMAIN rec[k].added) = 1
        /\ rec[k].due = EmptyFn

\* ---------------------------------------------- a sweep after the end date
\* The times a process is started at: on day 0, on day 1 and on day 3.
StartTimes == {0, 23, 30, 72}
\* next_occurrence of the rule the process finds: on day 0.
DueTimes == {0, 23}
EndDates == {{}, {0}, {1}, {2}}

\* t1 recurs daily or monthly, with no end date or one on day 0, 1 or 2, and
\* its next occurrence is on day 0; the process is started at one of
\* StartTimes, runs its sweeps and may stop and start again.
InitLate ==
    /\ now \in StartTimes
    /\ InitIdle
    /\ tasks = ("t1" :> TemplateTask("t1", "u1", "pending"))
    /\ \E f \in {"daily", "monthly"}, e \in EndDates, nx \in DueTimes :
          rules = ("q1" :> NewRule("t1", f, e, nx))
    /\ reminders = EmptyFn
    /\ subs = EmptyFn

NextLate ==
    \/ LifespanStart
    \/ LifespanCatchupReminders
    \/ LifespanStartScheduler
    \/ TickRecurrence
    \/ \E k \in Slots : RecQuery(k)
    \/ \E k \in Slots : RecCreate(k)
    \/ \E k \in Slots : RecCommit(k)
    \/ \E k \in Slots : RemQuery(k)
    \/ \E k \in Slots : RemCommit(k)
    \/ Stop

SpecLate == InitLate /\ [][NextLate]_vars

\* The step of a sweep that adds the instance of rule q to its session.
InstanceStep(k, q) ==
    /\ rec[k].pc = "loop"
    /\ rec'[k].pc = "loop"
    /\ q \in DOMAIN rec[k].due
    /\ q \notin DOMAIN rec'[k].due
    /\ rec'[k].added # rec[k].added

\* C30: the sweep never creates a task instance at a time whose date is
\* after the end_date of the rule it is created from, not even when the rule
\* became due before its end_date and is swept after it.
C30_NoInstanceAfterEnd ==
    [][\A k \in Slots, q \in RuleIds : InstanceStep(k, q) =>
            \A e \in rec[k].due[q].end_date : DateOf(rec[k].now) <= e]_vars

\* The process was started on day 1 with a rule that ended on day 0: its
\* sweep created an instance of t1 at 30 hours and deleted the rule.
C30_Witness ==
    /\ now = 30
    /\ rules = EmptyFn
    /\ \E n \in InstanceIds \cap DOMAIN tasks : tasks[n].created_at = 30
    /\ Cardinality(InstanceIds \cap DOMAIN tasks) = 1

\* --------------------------------------------- a sweep after long downtime
\* The times a process is started at: at once, a day, three days and forty
\* days after the rules became due.
ElapsedStarts == {0, 25, 72, 960}

\* t1 recurs daily or weekly, without an end or ending on day 2, and t2
\* monthly; both rules became due at time 0.  The process is started at one
\* of ElapsedStarts and runs its catch-up sweeps and its recurrence ticks.
InitElapsed ==
    /\ now \in ElapsedStarts
    /\ InitIdle
    /\ tasks = [t \in TaskIds |-> UserTask(t, "u1")]
    /\ \E f \in {"daily", "weekly"}, e \in {{}, {2}} :
          rules = ("q1" :> NewRule("t1", f, e, 0)) @@ ("q2" :> NewRule("t2", "monthly", {}, 0))
    /\ reminders = EmptyFn
    /\ subs = EmptyFn

NextElapsed ==
    \/ LifespanStart
    \/ LifespanCatchupReminders
    \/ LifespanStartScheduler
    \/ TickRecurrence
    \/ \E k \in Slots : RecQuery(k)
    \/ \E k \in Slots : RecCreate(k)
    \/ \E k \in Slots : RecCommit(k)
    \/ \E k \in Slots : RemQuery(k)
    \/ \E k \in Slots : RemCommit(k)

SpecElapsed == InitElapsed /\ [][NextElapsed]_vars

\* The tasks the commit of session k inserts for the template of rule q.
MadeFor(k, q) ==
    {n \in DOMAIN tasks' \ DOMAIN tasks : tasks'[n].title = rules[q].task_id}

InitIsolation ==
    /\ InitRest
    /\ tasks = ("t1" :> UserTask("t1", "u1")) @@ ("t2" :> UserTask("t2", "u2"))
    /\ rules = ("q1" :> NewRule("t1", "daily", {}, 24)) @@ ("q2" :> NewRule("t2", "daily", {}, 24))
    /\ reminders = ("r1" :> NewReminder("t1", {}, {0}))
    /\ subs = EmptyFn

\* The user a caller's calls are made for: c1 is the chat of u1, c2 of u2.
UserOf(c) == IF c = "c1" THEN "u1" ELSE "u2"

NextIsolation ==
    \/ \E c \in Callers, t \in TaskIds, f \in {"daily", "hourly"} :
          CreateRecurrenceSelect(c, t, UserOf(c), f, 1, {}, {}, {})
    \/ \E c \in Callers : CreateRecurrenceCommit(c)
    \/ \E c \in Callers, t \in TaskIds, rt \in {{}, {1}} :
          SetDueDateSelect(c, t, UserOf(c), {}, rt)
    \/ \E c \in Callers : SetDueDateCommit(c)
    \/ \E c \in Callers, t \in TaskIds, iv \in {{0}, {2}} :
          UpdateRecurrenceSelect(c, t, UserOf(c), {"monthly"}, iv, {})
    \/ \E c \in Callers : UpdateRecurrenceCommit(c)
    \/ \E c \in Callers, t \in TaskIds : RemoveRecurrenceSelect(c, t, UserOf(c))
    \/ \E c \in Callers : RemoveRecurrenceCommit(c)

SpecIsolation == InitIsolation /\ [][NextIsolation]_vars

\* Task t exists and is not u's.
NotOwner(t, u) == t \in DOMAIN tasks /\ tasks[t].user_id # u

\* C32: a call of set_due_date, create_recurrence, update_recurrence or
\* remove_recurrence for a task that is not the caller's returns an error
\* before it reaches its commit - the "Task not found or you don't have
\* access to it" error whenever the frequency given to create_recurrence is a
\* known one and set_due_date is given a date - and leaves every task, rule
\* and reminder as it is.
C32_UserIsolation ==
    [][\A c \in Callers, t \in TaskIds :
        (calls[c].pc = "idle" /\ calls'[c] # calls[c] /\ NotOwner(t, UserOf(c))) =>
          /\ (\E f \in {"daily", "hourly"} :
                    CreateRecurrenceSelect(c, t, UserOf(c), f, 1, {}, {}, {}))
                => /\ calls'[c].pc = "idle" /\ calls'[c].outcome = "error"
                   /\ calls'[c].error \in {"not_found", "invalid_frequency"}
                   /\ UNCHANGED <<tasks, rules, reminders>>
          /\ CreateRecurrenceSelect(c, t, UserOf(c), "daily", 1, {}, {}, {})
                => calls'[c] = Refused("create_recurrence", "not_found")
          /\ (\E rt \in {{}, {1}} : SetDueDateSelect(c, t, UserOf(c), {}, rt))
                => /\ calls'[c].pc = "idle" /\ calls'[c].outcome = "error"
                   /\ calls'[c].error \in {"not_found", "no_date"}
                   /\ UNCHANGED <<tasks, rules, reminders>>
          /\ SetDueDateSelect(c, t, UserOf(c), {}, {1})
                => calls'[c] = Refused("set_due_date", "not_found")
          /\ (\E iv \in {{0}, {2}} :
                    UpdateRecurrenceSelect(c, t, UserOf(c), {"monthly"}, iv, {}))
                => /\ calls'[c] = Refused("update_recurrence", "not_found")
                   /\ UNCHANGED <<tasks, rules, reminders>>
          /\ RemoveRecurrenceSelect(c, t, UserOf(c))
                => /\ calls'[c] = Refused("remove_recurrence", "not_found")
                   /\ UNCHANGED <<tasks, rules, reminders>>]_vars

\* u1's update_recurrence for t2 and u2's remove_recurrence for t1 were
\* refused, and every rule and reminder is what it was.
C32_Witness ==
    /\ calls["c1"] = Refused("update_recurrence", "not_found")
    /\ calls["c2"] = Refused("remove_recurrence", "not_found")
    /\ rules = ("q1" :> NewRule("t1", "daily", {}, 24)) @@ ("q2" :> NewRule("t2", "daily", {}, 24))
    /\ reminders = ("r1" :> NewReminder("t1", {}, {0}))

\* ------------------------------------------------ the progress of a sweep
\* The times a process is started at: the last day of a month, a leap day
\* just before midnight, the middle of December.
ProgressTimes == {At(2026, 1, 31, 9), At(2028, 2, 29, 23), At(2026, 12, 15, 0)}
ProgressIntervals == {1, 2, 13}

\* t1 recurs with any frequency, interval and day_of_month, without an end or
\* ending a month after the start; its rule became due on the hour of the
\* start or a day before.  The process runs its catch-up sweeps and its
\* recurrence ticks at the time it was started.
InitProgress ==
    /\ now \in ProgressTimes
    /\ InitIdle
    /\ tasks = ("t1" :> UserTask("t1", "u1"))
    /\ \E f \in Frequencies, iv \in ProgressIntervals, dom \in DayOfMonthArgs,
          e \in {{}, {DateOf(now) + 31}}, late \in {0, 24} :
          rules = ("q1" :> [NewRule("t1", f, e, now - late)
                               EXCEPT !.interval = iv, !.day_of_month = dom])
    /\ reminders = EmptyFn
    /\ subs = EmptyFn

NextProgress ==
    \/ LifespanStart
    \/ LifespanCatchupReminders
    \/ LifespanStartScheduler
    \/ TickRecurrence
    \/ \E k \in Slots : RecQuery(k)
    \/ \E k \in Slots : RecCreate(k)
    \/ \E k \in Slots : RecCommit(k)
    \/ \E k \in Slots : RemQuery(k)
    \/ \E k \in Slots : RemCommit(k)

SpecProgress == InitProgress /\ [][NextProgress]_vars

\* C33: the step of a sweep that processes a selected rule without an
\* exception, the template being there, marks the rule for deletion or gives
\* it a next_occurrence later than the sweep's now; after the commit of the
\* sweep every such rule is gone or has a next_occurrence later than the
\* sweep's now, so a query at that time does not select it again.
C33_StrictProgress ==
    [][\A k \in Slots :
          /\ (rec[k].pc = "loop" /\ rec'[k].pc = "loop")
                => \A q \in DOMAIN rec[k].due \ DOMAIN rec'[k].due :
                      (rec[k].due[q].task_id \in DOMAIN tasks /\ q \notin rec'[k].failed)
                         => \/ q \in rec'[k].removed
                            \/ /\ q \in DOMAIN rec'[k].moved
                               /\ rec'[k].moved[q] > rec[k].now
                               /\ rec'[k].moved[q] > rec[k].due[q].next_occurrence
          /\ (RecCommit(k) /\ RecCommitted(k))
                => \A q \in (rec[k].sel \ rec[k].failed) \cap DOMAIN rules :
                      rules[q].task_id \in DOMAIN tasks
                         => /\ q \in DOMAIN rules' => rules'[q].next_occurrence > rec[k].now
                            /\ q \notin {x \in DOMAIN rules' :
                                            rules'[x].next_occurrence <= rec[k].now}]_vars

\* On 2026-01-31 the catch-up sweep moved a monthly rule whose day_of_month
\* is 15 to 2026-02-15, and the tick sweep that followed at once selected
\* nothing.
C33_Witness ==
    /\ now = At(2026, 1, 31, 9)
    /\ "q1" \in DOMAIN rules
    /\ rules["q1"].frequency = "monthly"
    /\ rules["q1"].day_of_month = {15}
    /\ rules["q1"].next_occurrence = At(2026, 2, 15, 9)
    /\ Cardinality(InstanceIds \cap DOMAIN tasks) = 1
    /\ \E k \in Slots : rec[k].pc = "loop" /\ rec[k].kind = "tick" /\ rec[k].sel = {}

\* ---------------------------------------------- instances and rule progress
\* The days from 2026-11-02 to 9999-12-31: an interval update_recurrence
\* accepts late on 2026-11-02 and the calculator cannot add the day after.
HugeInterval == 2912137
OverflowTimes == {At(2026, 11, 3, 9), At(2026, 11, 3, 10)}

\* t1 recurs daily until 2026-11-30 and is due next on 2026-11-03T09; it is
\* 2026-11-02T23.  The owner of t1 changes the interval of the rule, time
\* passes, and the process runs its sweeps; the store stays reachable, so
\* that _create_task_instance raises exactly when the calculator does.
InitOverflow ==
    /\ now = At(2026, 11, 2, 23)
    /\ InitIdle
    /\ tasks = ("t1" :> UserTask("t1", "u1"))
    /\ rules = ("q1" :> NewRule("t1", "daily", {DateOf(At(2026, 11, 30, 0))},
                                At(2026, 11, 3, 9)))
    /\ reminders = EmptyFn
    /\ subs = EmptyFn

\* Time passes.
ClockTo(t) ==
    /\ now < t
    /\ now' = t
    /\ UNCHANGED <<store, driver, rem, rec, hist, counters, calls, sched>>

RecCreateComputed(k) ==
    /\ RecCreate(k)
    /\ \A q \in DOMAIN rec[k].due \ DOMAIN rec'[k].due :
          q \in rec'[k].failed
             <=> CalcRaises(rec[k].due[q].frequency, rec[k].due[q].interval, rec[k].now,
                            rec[k].due[q].day_of_month)

NextOverflow ==
    \/ LifespanStart
    \/ LifespanCatchupReminders
    \/ LifespanStartScheduler
    \/ TickRecurrence
    \/ \E k \in Slots : RecQuery(k)
    \/ \E k \in Slots : RecCreateComputed(k)
    \/ \E k \in Slots : RecCommit(k)
    \/ \E k \in Slots : RemQuery(k)
    \/ \E k \in Slots : RemCommit(k)
    \/ \E iv \in {{2}, {HugeInterval}, {HugeInterval + 1}} :
          UpdateRecurrenceSelect("c1", "t1", "u1", {}, iv, {})
    \/ UpdateRecurrenceCommit("c1")
    \/ \E t \in OverflowTimes : ClockTo(t)
    \/ Stop

SpecOverflow == InitOverflow /\ [][NextOverflow]_vars

\* C34: the commit of a sweep inserts an instance of a selected rule's
\* template exactly when it advances or deletes that rule - an exception
\* raised while the rule was processed leaves no instance behind - and a
\* process that stops before the commit leaves tasks and rules as they were.
C34_InstanceIffProgress ==
    [][/\ \A k \in Slots : (RecCommit(k) /\ RecCommitted(k)) =>
            \A q \in rec[k].sel \cap DOMAIN rules :
                Cardinality(MadeFor(k, q))
                    = IF q \in DOMAIN rec[k].moved \cup rec[k].removed THEN 1 ELSE 0
       /\ (phase # "stopped" /\ phase' = "stopped") => UNCHANGED <<tasks, rules>>]_vars

\* The interval of the rule was set to HugeInterval on 2026-11-02T23; the
\* sweeps of the next morning, whose calculator raised, have committed two
\* instances of t1, and the rule is as due as it was.
C34_Witness ==
    /\ \A k \in Slots : rec[k].pc = "idle"
    /\ Cardinality(InstanceIds \cap DOMAIN tasks) = 2
    /\ "q1" \in DOMAIN rules
    /\ rules["q1"].interval = HugeInterval
    /\ rules["q1"].next_occurrence = At(2026, 11, 3, 9)
    /\ now = At(2026, 11, 3, 9)

\* ------------------------------------------------- rules and their end date
\* t2 recurs daily, without an end or ending on day 0 or 1, and is due; t1
\* has no rule.  Their owner creates a rule for t1 and edits the rules while
\* the recurrence job sweeps.
InitEnd ==
    /\ InitRest
    /\ tasks = [t \in TaskIds |-> UserTask(t, "u1")]
    /\ \E e \in {{}, {0}, {1}} : rules = ("q2" :> NewRule("t2", "daily", e, 0))
    /\ reminders = EmptyFn
    /\ subs = EmptyFn

NextEnd ==
    \/ LifespanStart
    \/ LifespanCatchupReminders
    \/ LifespanStartScheduler
    \/ TickRecurrence
    \/ \E k \in Slots : RecQuery(k)
    \/ \E k \in Slots : RecCreate(k)
    \/ \E k \in Slots : RecCommit(k)
    \/ \E k \in Slots : RemQuery(k)
    \/ \E k \in Slots : RemCommit(k)
    \/ AdvanceClock
    \/ \E e \in EndDates : CreateRecurrence("t1", "u1", "daily", 1, {}, {}, e)
    \/ \E t \in TaskIds, e \in EndDateArgs : UpdateRecurrence(t, "u1", {}, {}, e)

SpecEnd == InitEnd /\ [][NextEnd]_vars

\* C35: every stored rule that has an end_date has a next_occurrence whose
\* date is not after it, whatever create_recurrence, update_recurrence and the
\* sweeps have done; a create_recurrence call whose first occurrence would
\* lie after end_date stores no rule.
C35_NextWithinEnd ==
    /\ [](\A q \in DOMAIN rules : \A e \in rules[q].end_date :
              DateOf(rules[q].next_occurrence) <= e)
    /\ [][(lastEdit' # lastEdit /\ lastEdit'.kind = "create_recurrence"
              /\ lastEdit'.result = {}) => rules' = rules]_vars

\* update_recurrence gave the rule of t1, whose next occurrence is on day 1,
\* the end date day 0.
C35_Witness ==
    \E q \in DOMAIN rules :
        /\ rules[q].task_id = "t1"
        /\ rules[q].end_date = {0}
        /\ DateOf(rules[q].next_occurrence) = 1

\* ------------------------------------------- recomputation after an edit
\* The times of the calls and the end dates they give.
RecomputeTimes == {At(2026, 1, 1, 9), At(2026, 1, 31, 9), At(2026, 2, 10, 0)}
RecomputeEnd == DateOf(At(2027, 1, 1, 0))

\* t1 of u1 has no rule yet; u1 gives it a daily or monthly one, with or
\* without a day of the month, and edits it at later times.
InitRecompute ==
    /\ InitRest
    /\ tasks = ("t1" :> UserTask("t1", "u1"))
    /\ rules = EmptyFn
    /\ reminders = EmptyFn
    /\ subs = EmptyFn

NextRecompute ==
    \/ \E t \in RecomputeTimes : ClockTo(t)
    \/ \E f \in {"daily", "monthly"}, dom \in {{}, {15}}, e \in {{}, {RecomputeEnd}} :
          CreateRecurrence("t1", "u1", f, 1, {}, dom, e)
    \/ \E f \in FrequencyArgs, iv \in IntervalArgs, e \in {{}, {RecomputeEnd}} :
          UpdateRecurrence("t1", "u1", f, iv, e)

SpecRecompute == InitRecompute /\ [][NextRecompute]_vars

\* What _create_task_instance would store as next_occurrence of rule row at
\* time t: the calculator on all the fields of the row.
SweepNext(row, t) ==
    calculate_next_occurrence(row.frequency, row.interval, t, row.end_date,
                              row.days_of_week, row.day_of_month)

\* C36: after a successful update_recurrence the stored next_occurrence is
\* the calculator's result for the rule's stored frequency, interval,
\* end_date, days_of_week and day_of_month at the time of the edit, the value
\* the sweep would compute for the rule at that time.
C36_RecomputedAsTheSweep ==
    [][\A f \in FrequencyArgs, iv \in IntervalArgs, e \in {{}, {RecomputeEnd}} :
          (/\ UpdateRecurrence("t1", "u1", f, iv, e)
           /\ RuleOf("t1") # {}
           /\ f \subseteq Frequencies
           /\ \A x \in iv : x >= 1)
              => \A q \in RuleOf("t1") :
                    {rules'[q].next_occurrence} = SweepNext(rules'[q], now)]_vars

\* A monthly rule on day 15 edited on 2026-01-31 at 09:00: the call stored
\* 2026-03-31T09:00 for interval 2, and the calculator on the whole row gives
\* 2026-03-15T09:00.
C36_Witness ==
    /\ now = At(2026, 1, 31, 9)
    /\ \E q \in RuleOf("t1") :
          /\ rules[q].frequency = "monthly"
          /\ rules[q].interval = 2
          /\ rules[q].day_of_month = {15}
          /\ rules[q].next_occurrence = At(2026, 3, 31, 9)
          /\ SweepNext(rules[q], now) = {At(2026, 3, 15, 9)}

\* ------------------------------------------ update_recurrence and its errors
\* t1 of u1 recurs daily; t2 of u2 recurs daily or has no rule.  u1 calls
\* update_recurrence on both tasks with every combination of arguments, while
\* u2 sets the interval of both to 2.
InitAtomic ==
    /\ InitRest
    /\ tasks = ("t1" :> UserTask("t1", "u1")) @@ ("t2" :> UserTask("t2", "u2"))
    /\ \/ rules = ("q1" :> NewRule("t1", "daily", {}, 24))
       \/ rules = ("q1" :> NewRule("t1", "daily", {}, 24))
                      @@ ("q2" :> NewRule("t2", "daily", {}, 24))
    /\ reminders = EmptyFn
    /\ subs = EmptyFn

NextAtomic ==
    \/ \E t \in TaskIds, f \in FrequencyArgs, iv \in IntervalArgs, e \in EndDateStrArgs :
          UpdateRecurrenceSelect("c1", t, "u1", f, iv, e)
    \/ \E t \in TaskIds : UpdateRecurrenceSelect("c2", t, "u2", {}, {2}, {})
    \/ \E c \in Callers : UpdateRecurrenceCommit(c)

SpecAtomic == InitAtomic /\ [][NextAtomic]_vars

\* C37: an update_recurrence call that returns an error (unknown frequency,
\* interval below 1, malformed end date, task not the caller's, no rule)
\* leaves every stored rule as it was, the fields assigned before the failing
\* check included, and nothing the call assigned is written later: only the
\* commit of a call that passed every check changes a rule.
C37_ErrorStoresNothing ==
    [][\A c \in Callers :
          (calls'[c] # calls[c] /\ calls[c].pc # "update_rule")
              => /\ rules' = rules
                 /\ (calls'[c].outcome = "error" /\ calls'[c].error # "not_found"
                         /\ calls'[c].error # "no_rule")
                        => rules'[calls'[c].id] = calls'[c].loaded]_vars

\* update_recurrence(frequency="monthly", interval=0) on a daily rule has
\* returned the interval error with frequency = "monthly" assigned on the
\* session's object, and the stored rule is daily.
C37_Witness ==
    /\ calls["c1"].outcome = "error"
    /\ calls["c1"].tool = "update_recurrence"
    /\ calls["c1"].error = "invalid_interval"
    /\ calls["c1"].unsaved.frequency = "monthly"
    /\ calls["c1"].loaded.frequency = "daily"
    /\ rules["q1"].frequency = "daily"
    /\ calls["c2"].outcome = "error"
    /\ calls["c2"].error \in {"not_found", "no_rule"}

\* ------------------------------------------- an edit during a reminder sweep
\* C38: a set_due_date that commits a new reminder_time between a reminder
\* sweep's query and that sweep's commit is not lost: the sweep's commit does
\* not mark the new value sent, so a reminder whose notification_sent a commit
\* set to true since its reminder_time got its value was selected as due with
\* that value.
C38_EditNotLost ==
    marked \subseteq seen

\* r1 was selected with reminder_time 0; set_due_date then moved it to time 1,
\* and the sweep's commit marked it sent at time 0, before it is due.
C38_Witness ==
    /\ now = 0
    /\ \A k \in Slots : rem[k].pc = "idle"
    /\ reminders["r1"].reminder_time = {1}
    /\ reminders["r1"].notification_sent
    /\ "r1" \in marked
    /\ "r1" \notin seen
    /\ lastEdit = [kind |-> "updated", withRt |-> TRUE, wasSent |-> FALSE]

\* ------------------------------------------------- the frame of the sweeps
\* A time after every time the clock reaches.
NotYet == 24 * (MaxTime + 2)

\* t1 has a due rule and a due reminder, t2 a rule and a reminder that are
\* not due; their owner has one subscription and edits the reminder and the
\* rule of t1 while the two jobs sweep.
InitFrame ==
    /\ InitRest
    /\ tasks = [t \in TaskIds |-> UserTask(t, "u1")]
    /\ rules = ("q1" :> NewRule("t1", "daily", {}, 0))
                   @@ ("q2" :> NewRule("t2", "daily", {}, NotYet))
    /\ reminders = ("r1" :> NewReminder("t1", {}, {0}))
                       @@ ("r2" :> NewReminder("t2", {}, {NotYet}))
    /\ subs = [s \in {"s1"} |-> [user_id |-> "u1"]]

NextFrame ==
    \/ Engine
    \/ TickRecurrence
    \/ \E k \in Slots : RecCreate(k)
    \/ AdvanceClock
    \/ SetDueDate("t1", "u1", {}, {NotYet})
    \/ UpdateRecurrence("t1", "u1", {"monthly"}, {}, {})

SpecFrame == InitFrame /\ [][NextFrame]_vars

\* C39: a step of a recurrence sweep changes no rule whose next_occurrence is
\* later than now, changes no field of a rule other than next_occurrence, and
\* leaves every existing task as it is; a step of a reminder sweep changes no
\* field of a reminder other than notification_sent, changes no reminder that
\* is not due, and changes no task.
C39_SweepFrame ==
    [][/\ (\E k \in Slots : rec'[k] # rec[k] /\ rec[k].pc \in {"query", "loop"})
          => /\ \A q \in DOMAIN rules :
                  /\ rules[q].next_occurrence > now
                        => q \in DOMAIN rules' /\ rules'[q] = rules[q]
                  /\ q \in DOMAIN rules'
                        => rules'[q] = [rules[q] EXCEPT !.next_occurrence =
                                                         rules'[q].next_occurrence]
             /\ \A t \in DOMAIN tasks : t \in DOMAIN tasks' /\ tasks'[t] = tasks[t]
       /\ (\E k \in Slots : rem'[k] # rem[k] /\ rem[k].pc \in {"query", "loop", "send"})
          => /\ DOMAIN reminders' = DOMAIN reminders
             /\ \A r \in DOMAIN reminders :
                  /\ reminders'[r] = [reminders[r] EXCEPT !.notification_sent =
                                                           reminders'[r].notification_sent]
                  /\ ~IsDue(reminders[r], now) => reminders'[r] = reminders[r]
             /\ tasks' = tasks]_vars

\* The reminder of t1 was moved to a later time while a sweep held it, and
\* the sweep's commit has marked it sent before it is due; the rule and the
\* reminder of t2 are as they were.
C39_Witness ==
    /\ \A k \in Slots : rem[k].pc = "idle" /\ rec[k].pc = "idle"
    /\ reminders["r1"].reminder_time = {NotYet}
    /\ reminders["r1"].notification_sent
    /\ reminders["r2"] = NewReminder("t2", {}, {NotYet})
    /\ rules["q2"] = NewRule("t2", "daily", {}, NotYet)
    /\ InstanceIds \cap DOMAIN tasks # {}

====
